---- MODULE Spec2Model ----
(***************************************************************************)
(* Streaming core of crypto-dash-backend: the stream hub (tokio broadcast  *)
(* channels keyed by topic), the venue adapters (one upstream WebSocket    *)
(* per market) and the hub subscribers they serve.                         *)
(***************************************************************************)
EXTENDS Integers, Sequences, FiniteSets, TLC

\* ------------------------------------------------------------------------
\* Bounds of the model
\* ------------------------------------------------------------------------

\* hub.rs:9 sets 1000; the model runs the same channel code on a small ring.
CHANNEL_CAPACITY == 2

\* number of publish calls explored
MaxPublish == 3

\* number of subscriber handles ever created
MaxHandles == 2

\* number of subscribers that stop receiving
MaxStalled == 1

\* number of upstream connections an adapter ever opens
MaxClients == 2

\* number of adapter calls in progress at once
MaxCalls == 1

\* number of hub subscribers an adapter ever sees
MaxSubscribers == 1

\* number of upstream ticker frames an adapter publishes
MaxFrames == 1

\* client connections
MaxSessions == 1

\* the channels of one exchange in a client's request
MaxChannels == 2

\* the last prices a ticker carries
MaxPrice == 2

\* completed set_ticker calls on the cache
MaxWrites == 3

\* the largest max_attempts of a RetryConfig: that of RetryConfig::default()
MaxAttempts == 5

\* the ticker frames whose cache writes and events are followed
MaxTickers == 2

\* ------------------------------------------------------------------------
\* Canonical model: symbols, markets, topics
\* ------------------------------------------------------------------------

None == "none"

MarketType == {"spot", "perpetual"}

BTCUSDT == [base |-> "BTC", quote |-> "USDT"]

ETHUSDT == [base |-> "ETH", quote |-> "USDT"]

\* a symbol whose base holds the '-' that canonical() puts between base and
\* quote, and the symbol with the '-' in its quote: Symbol::new takes any
\* two strings
AB_C == [base |-> "A-B", quote |-> "C"]

A_BC == [base |-> "A", quote |-> "B-C"]

\* the characters of the strings that occur in topics
Spelling ==
    [ticker |-> <<"t", "i", "c", "k", "e", "r">>,
     binance |-> <<"b", "i", "n", "a", "n", "c", "e">>,
     bybit |-> <<"b", "y", "b", "i", "t">>,
     spot |-> <<"s", "p", "o", "t">>,
     perpetual |-> <<"p", "e", "r", "p", "e", "t", "u", "a", "l">>,
     BTC |-> <<"B", "T", "C">>,
     ETH |-> <<"E", "T", "H">>,
     USDT |-> <<"U", "S", "D", "T">>,
     btc |-> <<"b", "t", "c">>,
     usdt |-> <<"u", "s", "d", "t">>,
     none |-> <<"n", "o", "n", "e">>,
     A |-> <<"A">>,
     C |-> <<"C">>,
     X |-> <<"X">>,
     USDC |-> <<"U", "S", "D", "C">>,
     BUSD |-> <<"B", "U", "S", "D">>,
     TUSD |-> <<"T", "U", "S", "D">>,
     USD |-> <<"U", "S", "D">>]
        @@ ("A-B" :> <<"A", "-", "B">>) @@ ("B-C" :> <<"B", "-", "C">>)

\* a String as the sequence of its characters
chars(str) == Spelling[str]

\* Symbol::canonical: format!("{}-{}", base, quote)
canonical(symbol) == chars(symbol.base) \o <<"-">> \o chars(symbol.quote)

\* Topic::ticker
ticker(exchange, market_type, symbol) ==
    [channel_type |-> "ticker", exchange |-> exchange,
     market_type |-> market_type, symbol |-> symbol]

\* the topic of a handle or reader that has none
NoTopic == ticker(None, None, [base |-> None, quote |-> None])

\* Topic::key: format!("{}:{}:{}:{}", channel, exchange, market, canonical)
key(topic) ==
    chars(topic.channel_type) \o <<":">> \o chars(topic.exchange) \o <<":">>
        \o chars(topic.market_type) \o <<":">> \o canonical(topic.symbol)

\* the topics the model publishes and subscribes
Topics ==
    {ticker("binance", "spot", BTCUSDT),
     ticker("binance", "spot", ETHUSDT),
     ticker("binance", "perpetual", BTCUSDT)}

\* the topics hub clients subscribe and publish
HubTopics ==
    {ticker("binance", "spot", BTCUSDT), ticker("binance", "spot", ETHUSDT)}

\* ------------------------------------------------------------------------
\* State
\* ------------------------------------------------------------------------

VARIABLES
    topics,         \* StreamHubInner.topics: key -> TopicChannel.sender
    global_sender,  \* StreamHubInner.global_sender
    handles,        \* subscriber handles ever returned: id -> receiver
    received,       \* history: what each handle's recv() has returned
    published,      \* history: the publish calls, in call order
    since           \* history: Len(published) when the handle was created

hubVars == <<topics, global_sender, handles, received, published, since>>

VARIABLES
    venue,              \* the adapter's id(): which adapter this is
    hub,                \* adapter.hub: Option<HubHandle>
    cache,              \* adapter.cache: Option<CacheHandle>
    cached,             \* the cache's tickers: DashMap<TickerKey, Ticker>
    written,            \* history: the tickers of the completed set_ticker calls
    ws_clients,         \* adapter.ws_clients: MarketType -> Option<Arc<WsClient>>
    clients,            \* every WsClient the adapter created, with its reader task
    calls,              \* subscribe()/unsubscribe() calls in progress
    subscribe_called,   \* history: subscribe() was called at least once
    stopped,            \* history: stop() was called after the last start()
    retry,              \* exchanges/common: the retry_with_backoff call in progress
    locks,              \* the adapter's mutexes: which task holds the guard of each
    subs                \* the channels of the calls in progress, the streams the
                        \* venue has on each connection, and history: the channels
                        \* subscribed and not unsubscribed since, per market

adapterVars ==
    <<venue, hub, cache, cached, written, ws_clients, clients, calls,
      subscribe_called, stopped, retry, locks, subs>>

VARIABLES
    sessions            \* the connections handle_socket serves, one record each

sessionVars == <<sessions>>

vars == <<hubVars, adapterVars, sessionVars>>

\* ------------------------------------------------------------------------
\* tokio::sync::broadcast as the hub uses it
\* ------------------------------------------------------------------------

RECURSIVE next_power_of_two(_)
next_power_of_two(n) == IF n <= 1 THEN 1 ELSE 2 * next_power_of_two((n + 1) \div 2)

\* broadcast::channel(capacity) allocates a ring of next_power_of_two slots
BufferLen == next_power_of_two(CHANNEL_CAPACITY)

\* broadcast::channel(CHANNEL_CAPACITY) with its first receiver dropped
channel == [pos |-> 0, rx_cnt |-> 0, buf |-> <<>>]

\* a ring that is full keeps its oldest values and discards the new one
RetainedOldest(s) ==
    IF Len(s) <= BufferLen THEN s ELSE SubSeq(s, 1, BufferLen)

\* the last BufferLen values of a sequence: the ring overwrites the oldest
Retained(s) ==
    IF Len(s) <= BufferLen THEN s ELSE SubSeq(s, Len(s) - BufferLen + 1, Len(s))

\* Sender::send: no receiver is an error and stores nothing
send(ch, value) ==
    IF ch.rx_cnt = 0
    THEN ch
    ELSE [ch EXCEPT !.pos = @ + 1, !.buf = Retained(Append(@, value))]

\* Sender::receiver_count
receiver_count(ch) == ch.rx_cnt

\* position of the oldest value the ring still holds
Oldest(ch) == ch.pos - Len(ch.buf)

\* the channel a handle receives from
ChannelOf(h) ==
    IF handles[h].kind = "global" THEN global_sender
    ELSE topics[key(handles[h].topic)]

\* ------------------------------------------------------------------------
\* HubHandle
\* ------------------------------------------------------------------------

\* HubHandle::global_subscriber_count
global_subscriber_count == receiver_count(global_sender)

\* HubHandle::subscriber_count over a given topics map
CountIn(map, topic) ==
    IF key(topic) \in DOMAIN map
    THEN receiver_count(map[key(topic)])
    ELSE 0

\* HubHandle::subscriber_count
subscriber_count(topic) == CountIn(topics, topic)

Live(h) == h \in DOMAIN handles /\ handles[h].state = "live"

NewHandle == Len(received) + 1

\* StreamHubInner::new
HubInit ==
    /\ topics = << >>
    /\ global_sender = channel
    /\ handles = << >>
    /\ received = << >>
    /\ published = << >>
    /\ since = << >>

\* a publish that is sent into every topic's channel
PublishedEveryTopic(topic, message) ==
    [k \in DOMAIN topics |-> send(topics[k], message)]

\* the hub state after StreamHubInner::publish(topic, message)
PublishedTopics(topic, message) ==
    IF key(topic) \in DOMAIN topics
    THEN [topics EXCEPT ![key(topic)] = send(@, message)]
    ELSE topics

PublishedGlobal(topic, message) == send(global_sender, <<topic, message>>)

\* a publish over a bounded queue: it waits until every receiver has room
publish_waits(topic) ==
    /\ Len(published) < MaxPublish
    /\ \A h \in DOMAIN handles :
        (handles[h].state = "live"
            /\ (handles[h].kind = "global" \/ handles[h].topic = topic)) =>
            (IF handles[h].kind = "global" THEN global_sender
             ELSE topics[key(topic)]).pos - handles[h].next < BufferLen
    /\ LET message == Len(published) + 1 IN
        /\ topics' = PublishedTopics(topic, message)
        /\ global_sender' = PublishedGlobal(topic, message)
        /\ published' = Append(published, <<topic, message>>)
    /\ UNCHANGED <<handles, received, since>>
    /\ UNCHANGED adapterVars
    /\ UNCHANGED sessionVars

\* StreamHubInner::publish: never waits, whatever the receivers do
publish(topic) ==
    /\ Len(published) < MaxPublish
    /\ LET message == Len(published) + 1 IN
        /\ topics' = PublishedTopics(topic, message)
        /\ global_sender' = PublishedGlobal(topic, message)
        /\ published' = Append(published, <<topic, message>>)
    /\ UNCHANGED <<handles, received, since>>
    /\ UNCHANGED adapterVars
    /\ UNCHANGED sessionVars

\* StreamHubInner::subscribe
subscribe(topic) ==
    /\ NewHandle <= MaxHandles
    /\ LET k == key(topic)
           ch == IF k \in DOMAIN topics THEN topics[k] ELSE channel
       IN /\ topics' = [x \in DOMAIN topics \cup {k} |->
                            IF x = k THEN [ch EXCEPT !.rx_cnt = @ + 1] ELSE topics[x]]
          /\ handles' = Append(handles,
                [state |-> "live", kind |-> "topic", topic |-> topic,
                 next |-> ch.pos, stalled |-> FALSE])
    /\ received' = Append(received, <<>>)
    /\ since' = Append(since, Len(published))
    /\ UNCHANGED <<global_sender, published>>
    /\ UNCHANGED adapterVars
    /\ UNCHANGED sessionVars

\* StreamHubInner::subscribe_all
subscribe_all ==
    /\ NewHandle <= MaxHandles
    /\ global_sender' = [global_sender EXCEPT !.rx_cnt = @ + 1]
    /\ handles' = Append(handles,
            [state |-> "live", kind |-> "global", topic |-> NoTopic,
             next |-> global_sender.pos, stalled |-> FALSE])
    /\ received' = Append(received, <<>>)
    /\ since' = Append(since, Len(published))
    /\ UNCHANGED <<topics, published>>
    /\ UNCHANGED adapterVars

\* a drop that leaves the receiver counted
ReleasedNot(ch) == ch

\* the receiver count after a handle of the channel is dropped
Released(ch) == [ch EXCEPT !.rx_cnt = @ - 1]

\* a handle that was dropped: its receiver is gone
Dropped ==
    [state |-> "dropped", kind |-> None, topic |-> NoTopic, next |-> 0,
     stalled |-> FALSE]

\* drop(SubscriberHandle) / drop(GlobalSubscriberHandle): Receiver::drop
drop(h) ==
    /\ Live(h)
    /\ handles' = [handles EXCEPT ![h] = Dropped]
    /\ IF handles[h].kind = "global"
       THEN /\ global_sender' = Released(global_sender)
            /\ UNCHANGED topics
       ELSE /\ topics' = [topics EXCEPT ![key(handles[h].topic)] = Released(@)]
            /\ UNCHANGED global_sender
    /\ received' = [received EXCEPT ![h] = <<>>]
    /\ since' = [since EXCEPT ![h] = 0]
    /\ UNCHANGED published
    /\ UNCHANGED adapterVars

\* a recv that returns the newest value instead of the one at the cursor
RecvNewest(ch, next) ==
    IF next < Oldest(ch)
    THEN [item |-> [lagged |-> Oldest(ch) - next], next |-> Oldest(ch)]
    ELSE [item |-> [value |-> ch.buf[Len(ch.buf)]], next |-> next + 1]

\* what Receiver::recv returns and where it leaves the cursor
RecvResult(ch, next) ==
    IF next < Oldest(ch)
    THEN [item |-> [lagged |-> Oldest(ch) - next], next |-> Oldest(ch)]
    ELSE [item |-> [value |-> ch.buf[next - Oldest(ch) + 1]], next |-> next + 1]

\* SubscriberHandle::recv / GlobalSubscriberHandle::recv, when it returns
recv(h) ==
    /\ Live(h)
    /\ ~handles[h].stalled
    /\ handles[h].next < ChannelOf(h).pos
    /\ LET r == RecvResult(ChannelOf(h), handles[h].next) IN
        /\ handles' = [handles EXCEPT ![h].next = r.next]
        /\ received' = [received EXCEPT ![h] = Append(@, r.item)]
    /\ UNCHANGED <<topics, global_sender, published, since>>
    /\ UNCHANGED adapterVars

\* a subscriber stops calling recv: the session forwarder waits on the
\* client socket while it holds the send half
stall(h) ==
    /\ Live(h)
    /\ ~handles[h].stalled
    /\ Cardinality({x \in DOMAIN handles : handles[x].stalled}) < MaxStalled
    /\ handles' = [handles EXCEPT ![h].stalled = TRUE]
    /\ UNCHANGED <<topics, global_sender, received, published, since>>
    /\ UNCHANGED adapterVars
    /\ UNCHANGED sessionVars

\* ------------------------------------------------------------------------
\* Delivery histories
\* ------------------------------------------------------------------------

\* the publish calls a handle is to see: those made after it was created,
\* on its topic (every topic for a global handle), in call order
Expected(h) ==
    LET after == SubSeq(published, since[h] + 1, Len(published)) IN
    IF handles[h].kind = "global"
    THEN after
    ELSE LET on == SelectSeq(after, LAMBDA p : p[1] = handles[h].topic)
         IN [i \in 1..Len(on) |-> on[i][2]]

\* recv() never returned Lagged to this handle
NeverLagged(h) == \A i \in 1..Len(received[h]) : "value" \in DOMAIN received[h][i]

HasLagged(h) == ~NeverLagged(h)

\* the receiver is more than the ring behind: its next recv() reports a lag
Behind(h) == handles[h].next < Oldest(ChannelOf(h))

\* the values the ring still holds for the handle
Pending(h) ==
    LET ch == ChannelOf(h) IN
    IF Behind(h) THEN ch.buf
    ELSE SubSeq(ch.buf, handles[h].next - Oldest(ch) + 1, Len(ch.buf))

\* the values recv() has returned to a handle that never lagged
Values(h) == [i \in 1..Len(received[h]) |-> received[h][i].value]

\* the message id of a value of either channel type
IdOf(h, v) == IF handles[h].kind = "global" THEN v[2] ELSE v

\* C1: a per-topic or global subscriber that never lagged has received the
\* publishes made for it in exactly publish order: what recv() returned so far
\* is a prefix of those publishes, nothing skipped, nothing twice.
C1_PublishOrder ==
    \A h \in DOMAIN handles :
        Live(h) /\ NeverLagged(h) =>
            /\ Len(received[h]) <= Len(Expected(h))
            /\ \A i \in 1..Len(received[h]) : received[h][i].value = Expected(h)[i]

\* two publishes on one topic were received, in order, by a per-topic and by a
\* global subscriber
C1_Witness ==
    \E h \in DOMAIN handles, g \in DOMAIN handles :
        /\ Live(h) /\ handles[h].kind = "topic" /\ Len(received[h]) >= 2
        /\ Live(g) /\ handles[g].kind = "global" /\ Len(received[g]) >= 2
        /\ NeverLagged(h) /\ NeverLagged(g)

\* the live handles a publish on the topic is routed to
Routed(topic) ==
    {h \in DOMAIN handles :
        Live(h) /\ (handles[h].kind = "global" \/ handles[h].topic = topic)}

\* C2: publish never waits on a subscriber: while some live subscriber has
\* stopped receiving, a publish on any topic can still complete, and when it
\* does every other live subscriber of the topic has the event to receive.
C2_PublishNeverBlocks ==
    (Len(published) < MaxPublish /\ \E s \in DOMAIN handles : Live(s) /\ handles[s].stalled) =>
        \A t \in HubTopics :
            ENABLED (/\ publish(t)
                     /\ \A h \in Routed(t) :
                            ~handles[h].stalled =>
                                /\ Len(Pending(h)') > 0
                                /\ IdOf(h, Pending(h)'[Len(Pending(h)')]) = Len(published'))

\* publishes went on after a subscriber stalled with a full ring, and another
\* subscriber received them
C2_Witness ==
    \E s \in DOMAIN handles, h \in DOMAIN handles :
        /\ Live(s) /\ handles[s].stalled /\ Behind(s)
        /\ Live(h) /\ ~handles[h].stalled /\ Len(received[h]) >= 2

RECURSIVE LagWalk(_, _, _, _)
\* the items recv() returned, replayed against the publishes: a value is the
\* publish at the cursor, Lagged(n) skips the n oldest undelivered publishes
\* and is only reported once more than the ring was outstanding
LagWalk(items, expected, i, p) ==
    IF i > Len(items) THEN TRUE
    ELSE IF "lagged" \in DOMAIN items[i]
    THEN /\ items[i].lagged >= 1
         /\ p + items[i].lagged + BufferLen <= Len(expected)
         /\ LagWalk(items, expected, i + 1, p + items[i].lagged)
    ELSE /\ p + 1 <= Len(expected)
         /\ items[i].value = expected[p + 1]
         /\ LagWalk(items, expected, i + 1, p + 1)

\* C3: a subscriber that fell more than the ring behind loses only its own
\* oldest undelivered events: recv() reports Lagged(n) for exactly the n
\* discarded ones and then resumes with the oldest retained event in publish
\* order; every subscriber that did not lag still has all its events.
C3_LagLosesOldestOnly ==
    /\ \A h \in DOMAIN handles :
        Live(h) => LagWalk(received[h], Expected(h), 1, 0)
    /\ (\E l \in DOMAIN handles : Live(l) /\ HasLagged(l)) =>
        \A h \in DOMAIN handles :
            Live(h) /\ NeverLagged(h) /\ ~Behind(h) =>
                Values(h) \o Pending(h) = Expected(h)

\* a subscriber was told Lagged and then received the oldest retained event,
\* while another subscriber received every event
C3_Witness ==
    \E l \in DOMAIN handles, h \in DOMAIN handles :
        /\ Live(l) /\ Len(received[l]) >= 2
        /\ "lagged" \in DOMAIN received[l][1]
        /\ "value" \in DOMAIN received[l][2]
        /\ Live(h) /\ NeverLagged(h) /\ Len(received[h]) = MaxPublish

\* how often a publish reached a handle: returned by recv() or still pending
Deliveries(h, id) ==
    LET all == Values(h) \o Pending(h) IN
    Cardinality({j \in 1..Len(all) : IdOf(h, all[j]) = id})

Venues == {"binance", "bybit"}

\* Option<Arc<WsClient>>::None in ws_clients; clients are numbered from 1
NoClient == 0

\* SUPPORTED_MARKETS
SUPPORTED_MARKETS == MarketType

\* the symbols upstream frames of a market carry
SymbolsOf(market_type) ==
    IF market_type = "spot" THEN {BTCUSDT, ETHUSDT} ELSE {BTCUSDT}

\* the topics the adapter publishes: Topic::ticker(self.id(), market_type, symbol)
AdapterTopics ==
    UNION {{ticker(venue, m, sym) : sym \in SymbolsOf(m)} : m \in SUPPORTED_MARKETS}

\* a subscribe()/unsubscribe() slot with no call in progress
NoCall == [op |-> None, pc |-> "idle", market_type |-> None, client |-> NoClient]

\* the guard of a mutex that no task holds; a held guard names the task, and
\* for the ws_clients mutex the client the task took out of the map
Free == [kind |-> None, id |-> 0, taken |-> 0]

\* BinanceAdapter::new / BybitAdapter::new: Arc::new(Mutex::new(..)) for the
\* hub handle, the cache handle and the map of the markets' clients
Unlocked == [hub |-> Free, cache |-> Free, ws_clients |-> Free]

\* no call has named a channel and no connection carries a stream
NoSubs ==
    [asked |-> [i \in 1..MaxCalls |-> {}], streams |-> {}, wanted |-> {},
     by_market |-> [i \in 1..MaxCalls |-> << >>],
     named |-> [i \in 1..MaxCalls |-> << >>],
     had |-> [i \in 1..MaxCalls |-> [m \in MarketType |-> NoClient]],
     frames |-> [i \in 1..MaxCalls |-> << >>]]

\* no retry_with_backoff call is in progress
NoRetry ==
    [pc |-> "idle", max_attempts |-> 0, attempts |-> 0, outcomes |-> << >>,
     result |-> [ok |-> FALSE, value |-> None]]

\* BinanceAdapter::new / BybitAdapter::new
AdapterInit(v) ==
    /\ venue = v
    /\ retry = NoRetry
    /\ locks = Unlocked
    /\ subs = NoSubs
    /\ hub = None
    /\ cache = None
    /\ cached = {}
    /\ written = << >>
    /\ ws_clients = [m \in SUPPORTED_MARKETS |-> NoClient]
    /\ clients = << >>
    /\ calls = [i \in 1..MaxCalls |-> NoCall]
    /\ subscribe_called = FALSE
    /\ stopped = FALSE

\* WsClient::is_connected: a stream is held and the last ping is recent
ws_is_connected(c) == clients[c].stream # None /\ ~clients[c].stale

\* ExchangeAdapter::is_connected
is_connected ==
    \E m \in SUPPORTED_MARKETS :
        ws_clients[m] # NoClient /\ ws_is_connected(ws_clients[m])

\* a client whose stream is gone (self.stream = None), its reader at a step
Broken(client, reader) ==
    [client EXCEPT !.stream = None, !.stale = FALSE, !.subscribed = FALSE,
                   !.reader = reader]

\* WsClient::close applied to the clients of a set
close(cs) ==
    [c \in DOMAIN clients |->
        IF c \in cs THEN Broken(clients[c], clients[c].reader) ELSE clients[c]]

\* an upstream socket that is open and has a running reader task
Reading(c) ==
    clients[c].stream # None /\ clients[c].reader \notin {"unspawned", "done"}

\* a start that opens the spot connection eagerly
start_eager ==
    /\ hub' = "hub"
    /\ cache' = "cache"
    /\ Len(clients) < MaxClients
    /\ clients' = Append(clients,
            [market_type |-> "spot", stream |-> "open", stale |-> FALSE,
             subscribed |-> FALSE, reader |-> "listening", topic |-> NoTopic,
             seen |-> << >>, last |-> 0])
    /\ ws_clients' = [ws_clients EXCEPT !["spot"] = Len(clients) + 1]
    /\ stopped' = FALSE
    /\ UNCHANGED <<retry, locks, subs, venue, cached, written, calls, subscribe_called>>
    /\ UNCHANGED hubVars
    /\ UNCHANGED sessionVars

\* ExchangeAdapter::start: stores the handles
start ==
    /\ hub' = "hub"
    /\ cache' = "cache"
    /\ stopped' = FALSE
    /\ UNCHANGED <<retry, locks, subs, venue, cached, written, ws_clients, clients, calls, subscribe_called>>
    /\ UNCHANGED hubVars
    /\ UNCHANGED sessionVars

\* disconnect_if_no_subscribers, the count check under the hub lock
should_disconnect(topic) ==
    IF hub # None
    THEN global_subscriber_count' = 0 /\ CountIn(topics', topic) = 0
    ELSE FALSE

\* Ticker: the normalized ticker of a symbol on a market of an exchange
Ticker(exchange, market_type, symbol, last) ==
    [exchange |-> exchange, market_type |-> market_type, symbol |-> symbol,
     last |-> last]

\* what get_ticker returns for a key without an entry
NoTicker == Ticker(None, None, [base |-> None, quote |-> None], 0)

\* a cache key that leaves the market out
TickerKeyFlat(exchange, market_type, symbol) ==
    [exchange |-> exchange, market_type |-> None, symbol |-> symbol]

\* TickerKey::new
TickerKey(exchange, market_type, symbol) ==
    [exchange |-> exchange, market_type |-> market_type, symbol |-> symbol]

\* DashMap::insert: the entry of the key is replaced
insert(map, k, v) == {p \in map : p[1] # k} \cup {<<k, v>>}

\* the cache's tickers after CacheHandle::set_ticker(t)
Stored(t) == insert(cached, TickerKey(t.exchange, t.market_type, t.symbol), t)

\* CacheHandle::get_ticker
get_ticker(exchange, market_type, symbol) ==
    LET found == {p \in cached : p[1] = TickerKey(exchange, market_type, symbol)}
    IN  IF found = {} THEN NoTicker ELSE (CHOOSE p \in found : TRUE)[2]

\* history: which handles of the hub were live when the counts were read
HandleStates == [h \in DOMAIN handles |-> handles[h].state]

\* listen_for_messages gets a ticker frame, which the venue sends only on a
\* connection that carried a SUBSCRIBE frame: handle_ticker writes the cache,
\* publishes through the hub and has disconnect_if_no_subscribers read the
\* subscriber counts
read_ticker(c, symbol) ==
    /\ c \in DOMAIN clients
    /\ clients[c].reader = "listening"
    /\ clients[c].stream # None
    /\ clients[c].subscribed
    /\ symbol \in SymbolsOf(clients[c].market_type)
    /\ UNCHANGED <<handles, received, since>>
    /\ UNCHANGED <<retry, locks, subs, venue, stopped, hub, cache, ws_clients, calls, subscribe_called>>
    /\ UNCHANGED sessionVars
    /\ LET topic == ticker(venue, clients[c].market_type, symbol)
           message == Len(published) + 1
           stored == Ticker(venue, clients[c].market_type, symbol, 1)
       IN /\ cached' = IF cache # None THEN Stored(stored) ELSE cached
          /\ written' = IF cache # None THEN Append(written, stored) ELSE written
          /\ IF hub # None
             THEN /\ Len(published) < MaxFrames
                  /\ topics' = PublishedTopics(topic, message)
                  /\ global_sender' = PublishedGlobal(topic, message)
                  /\ published' = Append(published, <<topic, message>>)
             ELSE UNCHANGED <<topics, global_sender, published>>
          /\ clients' = IF should_disconnect(topic)
                        THEN [clients EXCEPT ![c].reader = "teardown",
                                             ![c].topic = topic, ![c].stale = FALSE,
                                             ![c].seen = HandleStates]
                        ELSE [clients EXCEPT ![c].stale = FALSE]

\* one ticker of a frame: its symbol, and whether its symbol, timestamp and
\* decimals parse (handle_ticker gets past its `?` operators)
Entries(market_type) ==
    [symbol : SymbolsOf(market_type), parses : BOOLEAN]

\* the text frames a reader gets: text that is not a message of the venue
\* (serde_json::from_str fails), a message that is not market data (Binance
\* error, Bybit subscription ack), and ticker messages; a Bybit ticker message
\* carries one ticker or a list of them (BybitTickerPayload). A list of valid
\* tickers only is handled as the frames of one ticker each are.
Frames(market_type) ==
    {[kind |-> "unparseable", data |-> << >>], [kind |-> "control", data |-> << >>]}
    \cup {[kind |-> "ticker", data |-> <<e>>] : e \in Entries(market_type)}
    \cup IF venue = "bybit"
         THEN {[kind |-> "ticker", data |-> <<p[1], p[2]>>] :
                    p \in {q \in Entries(market_type) \X Entries(market_type) :
                                ~(q[1].parses /\ q[2].parses)}}
         ELSE {}

\* the frame parses and normalizes as a ticker message
Normalizes(frame) ==
    /\ frame.kind = "ticker"
    /\ \A k \in DOMAIN frame.data : frame.data[k].parses

\* handle_message on a ticker message: handle_ticker on each ticker in turn,
\* `?` ending the loop at the first one that fails; the tickers handled
RECURSIVE Handled(_)
Handled(data) ==
    IF data = << >> \/ ~Head(data).parses
    THEN << >>
    ELSE <<Head(data)>> \o Handled(Tail(data))

\* listen_for_messages gets a text frame: a frame that does not parse, is not
\* market data or fails in handle_message is logged and the loop goes on to
\* the next frame (next_message pings when the ping interval has passed)
read_frame(c, frame) ==
    /\ c \in DOMAIN clients
    /\ clients[c].reader = "listening"
    /\ clients[c].stream # None
    /\ frame \in Frames(clients[c].market_type)
    /\ IF Handled(frame.data) # << >>
       THEN read_ticker(c, Handled(frame.data)[1].symbol)
       ELSE /\ frame.kind = "ticker" => clients[c].subscribed
            /\ clients' = [clients EXCEPT ![c].stale = FALSE]
            /\ UNCHANGED <<retry, locks, subs, venue, cached, written, stopped, hub, cache, ws_clients, calls,
                           subscribe_called>>
            /\ UNCHANGED hubVars
            /\ UNCHANGED sessionVars

\* every frame a reader of the adapter may get
AllFrames == UNION {Frames(m) : m \in SUPPORTED_MARKETS}

\* a teardown that takes the entry of every market
TakenAll(topic) ==
    {ws_clients[m] : m \in SUPPORTED_MARKETS} \ {NoClient}

\* the clients disconnect_if_no_subscribers closes: the market's entry, taken
TakenBy(topic) ==
    IF ws_clients[topic.market_type] # NoClient
    THEN {ws_clients[topic.market_type]} ELSE {}

\* disconnect_if_no_subscribers, the close under the ws_clients lock
disconnect(c) ==
    /\ c \in DOMAIN clients
    /\ clients[c].reader = "teardown"
    /\ LET topic == clients[c].topic
           closed == close(TakenBy(topic))
       IN /\ ws_clients' = [ws_clients EXCEPT ![topic.market_type] = NoClient]
          /\ clients' = [closed EXCEPT ![c].reader = "listening", ![c].topic = NoTopic,
                                       ![c].seen = << >>]
    /\ UNCHANGED <<retry, locks, subs, venue, cached, written, stopped, hub, cache, calls, subscribe_called>>
    /\ UNCHANGED hubVars
    /\ UNCHANGED sessionVars

\* next_message returns Ok(None): a CLOSE frame or the end of the stream;
\* the loop breaks and the reader goes on to clear the handle
read_close(c) ==
    /\ c \in DOMAIN clients
    /\ clients[c].reader = "listening"
    /\ clients[c].stream # None
    /\ clients' = [clients EXCEPT ![c] = Broken(@, "closing")]
    /\ UNCHANGED <<retry, locks, subs, venue, cached, written, stopped, hub, cache, ws_clients, calls, subscribe_called>>
    /\ UNCHANGED hubVars
    /\ UNCHANGED sessionVars

\* the end of listen_for_messages: clear the entry if it is still this client
clear_own(c) ==
    /\ c \in DOMAIN clients
    /\ clients[c].reader = "closing"
    /\ ws_clients' = [ws_clients EXCEPT ![clients[c].market_type] =
                            IF @ = c THEN NoClient ELSE @]
    /\ clients' = [clients EXCEPT ![c].reader = "done"]
    /\ UNCHANGED <<retry, locks, subs, venue, cached, written, stopped, hub, cache, calls, subscribe_called>>
    /\ UNCHANGED hubVars
    /\ UNCHANGED sessionVars

\* next_message returns Err (a read error, or the stream was closed by another
\* task): `?` leaves listen_for_messages at once
read_error(c) ==
    /\ c \in DOMAIN clients
    /\ clients[c].reader = "listening"
    /\ clients' = [clients EXCEPT ![c] = Broken(@, "done")]
    /\ UNCHANGED <<retry, locks, subs, venue, cached, written, stopped, hub, cache, ws_clients, calls, subscribe_called>>
    /\ UNCHANGED hubVars
    /\ UNCHANGED sessionVars

\* connection_timeout passes without a ping while the reader waits for a frame
ping_timeout(c) ==
    /\ c \in DOMAIN clients
    /\ clients[c].reader = "listening"
    /\ clients[c].stream # None
    /\ ~clients[c].stale
    /\ ws_clients[clients[c].market_type] = c
    /\ clients' = [clients EXCEPT ![c].stale = TRUE]
    /\ UNCHANGED <<retry, locks, subs, venue, cached, written, stopped, hub, cache, ws_clients, calls, subscribe_called>>
    /\ UNCHANGED hubVars
    /\ UNCHANGED sessionVars

\* ExchangeAdapter::stop: takes and closes every market's client
stop ==
    /\ ws_clients' = [m \in SUPPORTED_MARKETS |-> NoClient]
    /\ clients' = close({ws_clients[m] : m \in SUPPORTED_MARKETS} \ {NoClient})
    /\ stopped' = TRUE
    /\ UNCHANGED <<retry, locks, subs, venue, cached, written, hub, cache, calls, subscribe_called>>
    /\ UNCHANGED hubVars
    /\ UNCHANGED sessionVars


\* ------------------------------------------------------------------------
\* subscribe() and unsubscribe(), one market group per call
\* ------------------------------------------------------------------------

\* the call in slot i moves to a step, keeping its market and client
Goto(i, pc) == [calls EXCEPT ![i].pc = pc]

\* the call in slot i returns
Return(i) == [calls EXCEPT ![i] = NoCall]

\* a new call takes the first slot that is free
FreeSlot(i) == calls[i].pc = "idle" /\ \A j \in 1..(i - 1) : calls[j].pc # "idle"

\* ExchangeAdapter::subscribe -> subscribe_internal for a market's channels, up
\* to its first get_ws_client: BinanceAdapter::ensure_connection reuses the
\* market's client if it is connected, BybitAdapter reuses whatever is there;
\* main.rs hands an adapter to the sessions only after start()
subscribe_call(i, m) ==
    /\ FreeSlot(i)
    /\ hub # None
    /\ LET c == ws_clients[m]
           reuse == c # NoClient /\ (venue = "binance" => ws_is_connected(c))
       IN calls' = [calls EXCEPT ![i] =
            [op |-> "subscribe", market_type |-> m,
             client |-> IF reuse THEN c ELSE NoClient,
             pc |-> IF reuse THEN "send" ELSE "connect"]]
    /\ subscribe_called' = TRUE
    /\ UNCHANGED <<retry, locks, subs, venue, cached, written, stopped, hub, cache, ws_clients, clients>>
    /\ UNCHANGED hubVars

\* subscribe(&[]): channels.is_empty() returns Ok at once
subscribe_empty ==
    /\ hub # None
    /\ ~subscribe_called
    /\ subscribe_called' = TRUE
    /\ UNCHANGED <<retry, locks, subs, venue, cached, written, stopped, hub, cache, ws_clients, clients, calls>>
    /\ UNCHANGED hubVars
    /\ UNCHANGED sessionVars

\* try_real_connection: WsClient::new and connect; an error returns to the caller
connect(i, ok) ==
    /\ calls[i].pc = "connect"
    /\ IF ok
       THEN /\ Len(clients) < MaxClients
            /\ clients' = Append(clients,
                    [market_type |-> calls[i].market_type, stream |-> "open",
                     stale |-> FALSE, subscribed |-> FALSE,
                     reader |-> "unspawned", topic |-> NoTopic, seen |-> << >>,
                     last |-> 0])
            /\ calls' = [calls EXCEPT ![i].client = Len(clients) + 1,
                                      ![i].pc = "install"]
       ELSE /\ calls' = Return(i)
            /\ UNCHANGED clients
    /\ UNCHANGED <<retry, locks, subs, venue, cached, written, stopped, hub, cache, ws_clients, subscribe_called>>
    /\ UNCHANGED hubVars
    /\ UNCHANGED sessionVars

\* the entry of the market after set_ws_client(market, Some(client))
Installed(m, c) == [ws_clients EXCEPT ![m] = c]

\* try_real_connection: set_ws_client and spawn listen_for_messages
install(i) ==
    /\ calls[i].pc = "install"
    /\ ws_clients' = Installed(calls[i].market_type, calls[i].client)
    /\ clients' = [clients EXCEPT ![calls[i].client].reader = "listening"]
    /\ calls' = Goto(i, IF venue = "binance" THEN "reinstall" ELSE "resend_get")
    /\ UNCHANGED <<retry, locks, subs, venue, cached, written, stopped, hub, cache, subscribe_called>>
    /\ UNCHANGED hubVars
    /\ UNCHANGED sessionVars

\* BinanceAdapter::ensure_connection: set_ws_client again with the new client
reinstall(i) ==
    /\ calls[i].pc = "reinstall"
    /\ ws_clients' = Installed(calls[i].market_type, calls[i].client)
    /\ calls' = Goto(i, "send")
    /\ UNCHANGED <<retry, locks, subs, venue, cached, written, stopped, hub, cache, clients, subscribe_called>>
    /\ UNCHANGED hubVars
    /\ UNCHANGED sessionVars

\* BybitAdapter::reconnect_and_send: get_ws_client after the reconnect
resend_get(i) ==
    /\ calls[i].pc = "resend_get"
    /\ LET c == ws_clients[calls[i].market_type] IN
        calls' = IF c # NoClient
                 THEN [calls EXCEPT ![i].client = c, ![i].pc = "resend"]
                 ELSE Return(i)
    /\ UNCHANGED <<retry, locks, subs, venue, cached, written, stopped, hub, cache, ws_clients, clients, subscribe_called>>
    /\ UNCHANGED hubVars
    /\ UNCHANGED sessionVars

\* where a call goes after WsClient::send_text returned
AfterSend(i, sent) ==
    IF venue = "bybit" /\ ~sent /\ calls[i].pc = "send" THEN Goto(i, "clear")
    ELSE IF venue = "bybit" /\ ~sent /\ calls[i].pc = "unsub_send" THEN Goto(i, "unsub_clear")
    ELSE Return(i)

\* WsClient::send_text of the SUBSCRIBE / UNSUBSCRIBE frame: a failed send
\* drops the stream
send_text(i, ok) ==
    /\ calls[i].pc \in {"send", "resend", "unsub_send"}
    /\ LET c == calls[i].client
           sent == ok /\ clients[c].stream # None
       IN /\ clients' = IF ~sent THEN [clients EXCEPT ![c] = Broken(@, @.reader)]
                        ELSE IF calls[i].op = "subscribe"
                        THEN [clients EXCEPT ![c].subscribed = TRUE]
                        ELSE clients
          /\ calls' = AfterSend(i, sent)
    /\ UNCHANGED <<retry, locks, subs, venue, cached, written, stopped, hub, cache, ws_clients, subscribe_called>>
    /\ UNCHANGED hubVars
    /\ UNCHANGED sessionVars

\* BybitAdapter::clear_ws_if_current after a failed send
clear_ws_if_current(i) ==
    /\ calls[i].pc \in {"clear", "unsub_clear"}
    /\ ws_clients' = [ws_clients EXCEPT ![calls[i].market_type] =
                            IF @ = calls[i].client THEN NoClient ELSE @]
    /\ calls' = IF calls[i].pc = "clear" THEN Goto(i, "connect") ELSE Return(i)
    /\ UNCHANGED <<retry, locks, subs, venue, cached, written, stopped, hub, cache, clients, subscribe_called>>
    /\ UNCHANGED hubVars
    /\ UNCHANGED sessionVars

\* an unsubscribe that connects when the market has no client
unsubscribe_connecting(i, m) ==
    /\ FreeSlot(i)
    /\ calls' = [calls EXCEPT ![i] =
            [op |-> "unsubscribe", market_type |-> m, client |-> ws_clients[m],
             pc |-> IF ws_clients[m] = NoClient THEN "connect" ELSE "unsub_send"]]
    /\ UNCHANGED <<retry, locks, subs, venue, cached, written, stopped, hub, cache, ws_clients, clients, subscribe_called>>
    /\ UNCHANGED hubVars

\* ExchangeAdapter::unsubscribe -> unsubscribe_internal for a market's
\* channels, up to get_ws_client; without a client nothing is sent
unsubscribe_call(i, m) ==
    /\ FreeSlot(i)
    /\ ws_clients[m] # NoClient
    /\ calls' = [calls EXCEPT ![i] =
            [op |-> "unsubscribe", market_type |-> m, client |-> ws_clients[m],
             pc |-> "unsub_send"]]
    /\ UNCHANGED <<retry, locks, subs, venue, cached, written, stopped, hub, cache, ws_clients, clients, subscribe_called>>
    /\ UNCHANGED hubVars

\* the adapter with its hub: what the adapter, its reader tasks, its callers
\* and the hub's subscribers do
NextAdapter ==
    \/ start
    \/ stop
    \/ subscribe_empty
    \/ \E i \in 1..MaxCalls, m \in SUPPORTED_MARKETS :
            subscribe_call(i, m) /\ UNCHANGED sessionVars
    \/ \E i \in 1..MaxCalls, m \in SUPPORTED_MARKETS :
            unsubscribe_call(i, m) /\ UNCHANGED sessionVars
    \/ \E i \in 1..MaxCalls, ok \in BOOLEAN : connect(i, ok)
    \/ \E i \in 1..MaxCalls : install(i)
    \/ \E i \in 1..MaxCalls : reinstall(i)
    \/ \E i \in 1..MaxCalls : resend_get(i)
    \/ \E i \in 1..MaxCalls, ok \in BOOLEAN : send_text(i, ok)
    \/ \E i \in 1..MaxCalls : clear_ws_if_current(i)
    \/ \E c \in 1..MaxClients, frame \in AllFrames : read_frame(c, frame)
    \/ \E c \in 1..MaxClients : disconnect(c)
    \/ \E c \in 1..MaxClients : read_close(c)
    \/ \E c \in 1..MaxClients : clear_own(c)
    \/ \E c \in 1..MaxClients : read_error(c)
    \/ \E c \in 1..MaxClients : ping_timeout(c)
    \/ \E t \in AdapterTopics : Len(handles) < MaxSubscribers /\ subscribe(t)
    \/ Len(handles) < MaxSubscribers /\ subscribe_all /\ UNCHANGED sessionVars
    \/ \E h \in 1..MaxHandles : drop(h) /\ UNCHANGED sessionVars

InitAdapter ==
    HubInit /\ (\E v \in Venues : AdapterInit(v)) /\ sessions = << >>

SpecAdapter == InitAdapter /\ [][NextAdapter]_vars

\* the tickers the adapters hand to the cache
Tickers ==
    {Ticker(e, m, sym, p) :
        e \in Venues, m \in MarketType, sym \in {BTCUSDT, ETHUSDT}, p \in 1..MaxPrice}

\* CacheHandle::set_ticker: one DashMap::insert under the key of the ticker
set_ticker(t) ==
    /\ cached' = Stored(t)
    /\ written' = Append(written, t)
    /\ UNCHANGED <<retry, locks, subs, venue, hub, cache, ws_clients, clients, calls, subscribe_called,
                   stopped>>
    /\ UNCHANGED hubVars
    /\ UNCHANGED sessionVars

\* the cache under the set_ticker calls of concurrent writers, in the order
\* their inserts take effect
NextCache == \E t \in Tickers : Len(written) < MaxWrites /\ set_ticker(t)

SpecCache == InitAdapter /\ [][NextCache]_vars

\* the ticker of the most recently completed set_ticker for a key, if any
LastWritten(exchange, market_type, symbol) ==
    LET at == {i \in DOMAIN written :
                    /\ written[i].exchange = exchange
                    /\ written[i].market_type = market_type
                    /\ written[i].symbol = symbol}
    IN  IF at = {} THEN NoTicker
        ELSE written[CHOOSE i \in at : \A j \in at : j <= i]

\* C28: for every key (venue, market, symbol) get_ticker returns nothing
\* before a set_ticker for the key and afterwards the ticker of the most
\* recently completed set_ticker for that key, whatever was written under
\* other keys, the same venue and symbol on the other market included.
C28_LastWriterWins ==
    \A e \in Venues, m \in MarketType, sym \in {BTCUSDT, ETHUSDT} :
        get_ticker(e, m, sym) = LastWritten(e, m, sym)

\* a symbol of a venue has a ticker on each market, one of them written
\* twice, and the two differ
C28_Witness ==
    \E e \in Venues, sym \in {BTCUSDT, ETHUSDT} :
        /\ get_ticker(e, "spot", sym) # NoTicker
        /\ get_ticker(e, "perpetual", sym) # NoTicker
        /\ get_ticker(e, "spot", sym).last # get_ticker(e, "perpetual", sym).last
        /\ \E i \in DOMAIN written, j \in DOMAIN written :
            /\ i < j
            /\ written[i].symbol = sym /\ written[j].symbol = sym
            /\ written[i].exchange = e /\ written[j].exchange = e
            /\ written[i].market_type = written[j].market_type
            /\ written[i].last # written[j].last

\* the started adapter with the connections of its markets: the calls of the
\* sessions, the readers of the connections, and the sessions' global
\* subscriptions coming and going
NextMarkets ==
    \/ \E i \in 1..MaxCalls, m \in SUPPORTED_MARKETS :
            subscribe_call(i, m) /\ UNCHANGED sessionVars
    \/ \E i \in 1..MaxCalls, m \in SUPPORTED_MARKETS :
            unsubscribe_call(i, m) /\ UNCHANGED sessionVars
    \/ \E i \in 1..MaxCalls, ok \in BOOLEAN : connect(i, ok)
    \/ \E i \in 1..MaxCalls : install(i)
    \/ \E i \in 1..MaxCalls : reinstall(i)
    \/ \E i \in 1..MaxCalls : resend_get(i)
    \/ \E i \in 1..MaxCalls, ok \in BOOLEAN : send_text(i, ok)
    \/ \E i \in 1..MaxCalls : clear_ws_if_current(i)
    \/ \E c \in 1..MaxClients, frame \in AllFrames : read_frame(c, frame)
    \/ \E c \in 1..MaxClients : disconnect(c)
    \/ \E c \in 1..MaxClients : read_close(c)
    \/ \E c \in 1..MaxClients : clear_own(c)
    \/ \E c \in 1..MaxClients : read_error(c)
    \/ Len(handles) < MaxSubscribers /\ subscribe_all /\ UNCHANGED sessionVars
    \/ \E h \in 1..MaxHandles : drop(h) /\ UNCHANGED sessionVars

\* main.rs: the adapter is started with the hub and the cache before a
\* session can call it
InitMarkets ==
    /\ HubInit
    /\ venue \in Venues
    /\ retry = NoRetry
    /\ locks = Unlocked
    /\ subs = NoSubs
    /\ hub = "hub"
    /\ cache = "cache"
    /\ cached = {}
    /\ written = << >>
    /\ ws_clients = [m \in SUPPORTED_MARKETS |-> NoClient]
    /\ clients = << >>
    /\ calls = [i \in 1..MaxCalls |-> NoCall]
    /\ subscribe_called = FALSE
    /\ stopped = FALSE
    /\ sessions = << >>

SpecMarkets == InitMarkets /\ [][NextMarkets]_vars

\* str::to_lowercase and str::to_uppercase, character by character
Lowercase ==
    [B |-> "b", T |-> "t", C |-> "c", U |-> "u", S |-> "s", D |-> "d"]

Uppercase ==
    [b |-> "B", t |-> "T", c |-> "C", u |-> "U", s |-> "S", d |-> "D"]

to_lowercase(str) ==
    [k \in DOMAIN str |->
        IF str[k] \in DOMAIN Lowercase THEN Lowercase[str[k]] ELSE str[k]]

to_uppercase(str) ==
    [k \in DOMAIN str |->
        IF str[k] \in DOMAIN Uppercase THEN Uppercase[str[k]] ELSE str[k]]

\* a Channel of a request: depth 0 stands for a depth that is not given
Channel(channel_type, symbol, depth) ==
    [channel_type |-> channel_type, symbol |-> symbol, depth |-> depth]

\* the decimal digits of the depths that occur
Digits(n) == IF n = 5 THEN <<"5">> ELSE <<"2", "0">>

\* BinanceAdapter::streams_from_channels, one channel
BinanceStream(ch) ==
    LET symbol_str == to_lowercase(chars(ch.symbol.base))
                        \o to_lowercase(chars(ch.symbol.quote))
    IN  IF ch.channel_type = "ticker"
        THEN symbol_str \o <<"@", "t", "i", "c", "k", "e", "r">>
        ELSE symbol_str \o <<"@", "d", "e", "p", "t", "h">>
                \o Digits(IF ch.depth = 0 THEN 20 ELSE ch.depth)

\* BybitAdapter::topics_from_channels, one channel
BybitTopic(ch) ==
    LET symbol == chars(ch.symbol.base) \o chars(ch.symbol.quote)
    IN  IF ch.channel_type = "ticker"
        THEN <<"t", "i", "c", "k", "e", "r", "s", ".">> \o symbol
        ELSE <<"o", "r", "d", "e", "r", "b", "o", "o", "k", ".", "1", ".">> \o symbol

\* format_subscription / format_unsubscription of the adapter: the frame for
\* the channels of one market
format(op, channels) ==
    IF venue = "binance"
    THEN [method |-> IF op = "subscribe" THEN "SUBSCRIBE" ELSE "UNSUBSCRIBE",
          params |-> [k \in DOMAIN channels |-> BinanceStream(channels[k])],
          id |-> 1]
    ELSE [op |-> op,
          args |-> [k \in DOMAIN channels |-> BybitTopic(channels[k])]]

\* the channels a client may name: the symbol in upper or in lower case, the
\* order book with a depth or without
RequestChannels ==
    {Channel("ticker", sym, 0) :
        sym \in {BTCUSDT, [base |-> "btc", quote |-> "usdt"]}}
    \cup {Channel("orderbook", sym, n) :
            sym \in {BTCUSDT, [base |-> "btc", quote |-> "usdt"]}, n \in {0, 5}}

\* the channels of one market in a call, in the order of the request
ChannelLists ==
    UNION {[1..n -> RequestChannels] : n \in 1..MaxChannels}

\* subscribe_internal / unsubscribe_internal for the channels of market m:
\* the frame is formatted
format_frame(i, op, m, channels) ==
    /\ FreeSlot(i)
    /\ calls' = [calls EXCEPT ![i] =
            [op |-> op, pc |-> "formatted", market_type |-> m, client |-> NoClient,
             channels |-> channels, frame |-> format(op, channels)]]
    /\ UNCHANGED <<retry, locks, subs, venue, cached, written, stopped, hub, cache, ws_clients, clients,
                   subscribe_called>>
    /\ UNCHANGED hubVars
    /\ UNCHANGED sessionVars

\* the call is done with its frame
frame_done(i) ==
    /\ calls[i].pc = "formatted"
    /\ calls' = Return(i)
    /\ UNCHANGED <<retry, locks, subs, venue, cached, written, stopped, hub, cache, ws_clients, clients,
                   subscribe_called>>
    /\ UNCHANGED hubVars
    /\ UNCHANGED sessionVars

\* the adapter formatting the frames of its calls
NextFrames ==
    \/ \E i \in 1..MaxCalls, op \in {"subscribe", "unsubscribe"},
          m \in SUPPORTED_MARKETS, channels \in ChannelLists :
            format_frame(i, op, m, channels)
    \/ \E i \in 1..MaxCalls : frame_done(i)

SpecFrames == InitMarkets /\ [][NextFrames]_vars

\* the stream the venue expects for a channel: Binance the lowercase
\* base+quote with @ticker or @depth<N>, Bybit tickers. or orderbook.1. with
\* the uppercase base+quote
VenueStream(ch) ==
    LET sym == chars(ch.symbol.base) \o chars(ch.symbol.quote)
    IN  IF venue = "binance"
        THEN to_lowercase(sym) \o
                (IF ch.channel_type = "ticker"
                 THEN <<"@", "t", "i", "c", "k", "e", "r">>
                 ELSE <<"@", "d", "e", "p", "t", "h">>
                        \o Digits(IF ch.depth = 0 THEN 20 ELSE ch.depth))
        ELSE (IF ch.channel_type = "ticker"
              THEN <<"t", "i", "c", "k", "e", "r", "s", ".">>
              ELSE <<"o", "r", "d", "e", "r", "b", "o", "o", "k", ".", "1", ".">>)
                \o to_uppercase(sym)

\* the streams a frame lists
Listed(frame) == IF venue = "binance" THEN frame.params ELSE frame.args

\* C30: the frame of a market group lists one stream per channel in request
\* order, each in the venue's form: lowercase base+quote on Binance,
\* uppercase base+quote on Bybit, whatever the case in the client's request.
C30_FrameStreams ==
    \A i \in DOMAIN calls :
        calls[i].pc = "formatted"
        => /\ Len(Listed(calls[i].frame)) = Len(calls[i].channels)
           /\ \A k \in DOMAIN calls[i].channels :
                Listed(calls[i].frame)[k] = VenueStream(calls[i].channels[k])
           /\ IF venue = "binance"
              THEN calls[i].frame.method =
                    (IF calls[i].op = "subscribe" THEN "SUBSCRIBE" ELSE "UNSUBSCRIBE")
              ELSE calls[i].frame.op = calls[i].op

\* what belongs to the markets other than m, the hub and the sessions stay
\* as they are in this step
OthersUnchanged(m) ==
    /\ \A n \in SUPPORTED_MARKETS \ {m} :
        /\ ws_clients'[n] = ws_clients[n]
        /\ \A x \in DOMAIN clients :
                clients[x].market_type = n => clients'[x] = clients[x]
    /\ DOMAIN clients' = DOMAIN clients
    /\ handles' = handles
    /\ global_subscriber_count' = global_subscriber_count
    /\ UNCHANGED sessionVars

\* the connection of client c fails or is closed in this step: its reader
\* gets a read error or a CLOSE, clears its entry, or tears the market down
ReaderFails(c) ==
    read_error(c) \/ read_close(c) \/ clear_own(c) \/ disconnect(c)

\* the send of call i fails in this step, or the call clears the entry after it
SendFails(i) ==
    \/ send_text(i, FALSE)
    \/ calls[i].pc \in {"send", "resend", "unsub_send"}
        /\ clients[calls[i].client].stream = None /\ send_text(i, TRUE)
    \/ clear_ws_if_current(i)

\* C26: when a market's upstream connection fails or is closed (read error,
\* CLOSE, failed send, idle teardown) only that market's connection state
\* changes: the other market's entry and clients, the hub's subscriptions
\* and the sessions stay as they are.
C26_FailureStaysInMarket ==
    [][/\ \A c \in DOMAIN clients :
            ReaderFails(c) => OthersUnchanged(clients[c].market_type)
       /\ \A i \in DOMAIN calls :
            SendFails(i) => OthersUnchanged(calls[i].market_type)]_vars

\* one market's connection is gone and its entry empty while the other
\* market's connection is open
C26_Witness ==
    \E m \in SUPPORTED_MARKETS, n \in SUPPORTED_MARKETS, c \in DOMAIN clients :
        /\ m # n
        /\ ws_clients[m] = NoClient
        /\ clients[c].market_type = m /\ clients[c].stream = None
        /\ ws_clients[n] # NoClient /\ ws_is_connected(ws_clients[n])

\* C27: a connection is opened only inside subscribe(): a client is created
\* and a market's empty entry is filled only by a step of a subscribe call
\* for that market, so an idle market stays idle until the next subscribe().
C27_ConnectOnlyInSubscribe ==
    [][/\ Len(clients') > Len(clients)
            => \E i \in DOMAIN calls :
                /\ calls[i].op = "subscribe"
                /\ connect(i, TRUE)
                /\ clients'[Len(clients')].market_type = calls[i].market_type
       /\ \A m \in SUPPORTED_MARKETS :
            (ws_clients[m] = NoClient /\ ws_clients'[m] # NoClient)
            => \E i \in DOMAIN calls :
                /\ calls[i].op = "subscribe"
                /\ calls[i].market_type = m
                /\ install(i) \/ reinstall(i)]_vars

\* a market that was connected and collapsed to idle: its client is gone and
\* the entry is empty
C27_Witness ==
    \E c \in DOMAIN clients :
        /\ clients[c].stream = None
        /\ clients[c].reader = "done"
        /\ ws_clients[clients[c].market_type] = NoClient

\* callers that are inside subscribe() at the same time: the sessions call
\* the shared adapter from their own tasks
Callers == MaxCalls + 1

\* the adapter under concurrent subscribe() calls and stop()
NextCallers ==
    \/ start
    \/ stop
    \/ \E i \in 1..Callers, m \in SUPPORTED_MARKETS :
            subscribe_call(i, m) /\ UNCHANGED sessionVars
    \/ \E i \in 1..Callers, ok \in BOOLEAN : connect(i, ok)
    \/ \E i \in 1..Callers : install(i)
    \/ \E i \in 1..Callers : reinstall(i)
    \/ \E i \in 1..Callers : resend_get(i)
    \/ \E i \in 1..Callers, ok \in BOOLEAN : send_text(i, ok)
    \/ \E i \in 1..Callers : clear_ws_if_current(i)

InitCallers ==
    /\ HubInit
    /\ venue \in Venues
    /\ retry = NoRetry
    /\ locks = Unlocked
    /\ subs = NoSubs
    /\ hub = None
    /\ cache = None
    /\ cached = {}
    /\ written = << >>
    /\ ws_clients = [m \in SUPPORTED_MARKETS |-> NoClient]
    /\ clients = << >>
    /\ calls = [i \in 1..Callers |-> NoCall]
    /\ subscribe_called = FALSE
    /\ stopped = FALSE
    /\ sessions = << >>

SpecCallers == InitCallers /\ [][NextCallers]_vars


\* ------------------------------------------------------------------------
\* Idle teardown and connection ownership
\* ------------------------------------------------------------------------

\* the reader of client c completes disconnect_if_no_subscribers' close
TeardownStep(c) ==
    /\ c \in DOMAIN clients
    /\ clients[c].reader = "teardown"
    /\ clients'[c].reader # "teardown"

\* the sockets of market m in cs that are open with a running reader task
OpenSocketsIn(cs, m) ==
    {c \in DOMAIN cs :
        /\ cs[c].market_type = m
        /\ cs[c].stream # None
        /\ cs[c].reader \notin {"unspawned", "done"}}

OpenSockets(m) == OpenSocketsIn(clients, m)

\* when the reader of c handled its event, every subscriber of the hub had
\* disconnected
LastSubscriberGone(c) ==
    /\ \E h \in DOMAIN clients[c].seen : clients[c].seen[h] = "dropped"
    /\ \A h \in DOMAIN clients[c].seen : clients[c].seen[h] # "live"

\* the per-topic subscribers of market m that were there when the reader of c
\* handled its event and still are
Consumers(c, m) ==
    {h \in DOMAIN clients[c].seen :
        /\ clients[c].seen[h] = "live"
        /\ Live(h)
        /\ handles[h].kind = "topic"
        /\ handles[h].topic.market_type = m}

\* C6: once the adapter has published an event of topic t and observed
\* global_subscriber_count() = 0 and subscriber_count(t) = 0, the close that
\* follows leaves the market's handle cleared and no open upstream socket for
\* that market.
C6_TeardownLeavesNoSocket ==
    [][\A c \in DOMAIN clients :
        TeardownStep(c) =>
            /\ ws_clients'[clients[c].topic.market_type] = NoClient
            /\ OpenSocketsIn(clients', clients[c].topic.market_type) = {}]_vars

\* C7: after the only hub subscriber has gone, the next event the adapter
\* processes closes the upstream socket it arrived on, and is_connected() is
\* false afterwards.
C7_NextEventClosesSocket ==
    [][\A c \in DOMAIN clients :
        (TeardownStep(c) /\ LastSubscriberGone(c)) =>
            /\ clients'[c].stream = None
            /\ ~is_connected']_vars

\* C8: idle teardown closes a market's connection only while no topic that the
\* market's connection carries has a per-topic hub subscriber.
C8_TeardownOnlyWhenMarketIdle ==
    [][\A c \in DOMAIN clients :
        (TeardownStep(c) /\ TakenBy(clients[c].topic) # {}) =>
            Consumers(c, clients[c].topic.market_type) = {}]_vars

\* C9: an adapter has at most one open upstream socket with a running reader
\* task per market.
C9_OneSocketPerMarket ==
    \A m \in SUPPORTED_MARKETS : Cardinality(OpenSockets(m)) <= 1

SubscribeOk(i) ==
    /\ calls[i].op = "subscribe"
    /\ calls[i].pc \in {"send", "resend"}
    /\ calls'[i] = NoCall
    /\ clients'[calls[i].client].stream # None

\* a connection is opened in this step
Opened == DOMAIN clients' \ DOMAIN clients

\* C11: subscribe() for a market without a live connection connects first and
\* sends the SUBSCRIBE frame afterwards, on that market's connection; when it
\* returns Ok the market's handle is set and a reader task runs for it; a
\* market that is not in the request gets no connection and no frame.
C11_ConnectThenSubscribe ==
    [][/\ \A i \in DOMAIN calls :
            SubscribeOk(i) =>
                /\ clients[calls[i].client].market_type = calls[i].market_type
                /\ clients[calls[i].client].reader # "unspawned"
                /\ ws_clients'[calls[i].market_type] # NoClient
                /\ ws_clients'[calls[i].market_type]
                        \in OpenSocketsIn(clients', calls[i].market_type)
       /\ \A c \in Opened :
            \E i \in DOMAIN calls :
                /\ calls[i].op = "subscribe"
                /\ calls[i].market_type = clients'[c].market_type
       /\ \A c \in DOMAIN clients :
            (~clients[c].subscribed /\ clients'[c].subscribed) =>
                \E i \in DOMAIN calls :
                    /\ calls[i].op = "subscribe"
                    /\ calls[i].market_type = clients[c].market_type
                    /\ calls[i].client = c]_vars

\* the subscribe call in slot i fails to send its frame on a connection that
\* was in use before the call (it already carried a SUBSCRIBE frame)
FirstSendFails(i) ==
    /\ calls[i].op = "subscribe"
    /\ calls[i].pc = "send"
    /\ clients[calls[i].client].subscribed
    /\ calls'[i] # calls[i]
    /\ clients'[calls[i].client].stream = None

\* C12: when the SUBSCRIBE frame cannot be sent on an existing connection the
\* adapter clears the market's handle, reconnects once and resends once; a
\* failed reconnect or resend is returned to the caller as an error.
C12_ReconnectAndResendOnce ==
    [][\A i \in DOMAIN calls :
        /\ FirstSendFails(i) => calls'[i].pc = "clear"
        /\ (calls[i].pc = "clear" /\ calls'[i] # calls[i]) =>
                /\ ws_clients'[calls[i].market_type] # calls[i].client
                /\ calls'[i].pc = "connect"
        /\ (calls[i].pc = "resend" /\ calls'[i] # calls[i]) => calls'[i] = NoCall
        /\ (calls[i].pc = "connect" /\ calls'[i] # calls[i]
                /\ DOMAIN clients' = DOMAIN clients) => calls'[i] = NoCall]_vars

\* ------------------------------------------------------------------------
\* Reader exit and stop()
\* ------------------------------------------------------------------------

\* the reader task of client c ends in this step
ReaderEnds(c) ==
    /\ c \in DOMAIN clients
    /\ clients[c].reader \notin {"unspawned", "done"}
    /\ clients'[c].reader = "done"

\* C13: when a reader task ends after a CLOSE frame, the end of the stream or
\* a read error, the market's handle no longer holds its connection.
C13_ReaderExitClearsHandle ==
    [][\A c \in DOMAIN clients :
        ReaderEnds(c) => ws_clients'[clients[c].market_type] # c]_vars

\* the reader tasks that have not ended
RunningReaders(cs) ==
    {c \in DOMAIN cs : cs[c].reader \notin {"unspawned", "done"}}

\* C14: when stop() returns, no market holds a connection handle,
\* is_connected() is false and no reader task of the adapter is running.
C14_StopEndsReaders ==
    [][stop =>
        /\ \A m \in SUPPORTED_MARKETS : ws_clients'[m] = NoClient
        /\ ~is_connected'
        /\ RunningReaders(clients') = {}]_vars

\* a subscribe() call is made in this step and goes on to connect or send
SubscribeAccepted(i) ==
    /\ calls[i] = NoCall
    /\ calls'[i].op = "subscribe"

\* C15: subscribe() on an adapter that was stopped returns an error: it does
\* not go on to open a connection or send a frame.
C15_SubscribeAfterStopFails ==
    [][\A i \in DOMAIN calls : stopped => ~SubscribeAccepted(i)]_vars

\* C16: an upstream text frame causes a cache write and a hub publish only if
\* it parses and normalizes as a ticker or order-book message; any other
\* frame changes neither and leaves the reader listening on the open
\* connection.
C16_OnlyNormalizedFramesPublish ==
    [][\A c \in DOMAIN clients : \A frame \in AllFrames :
        (read_frame(c, frame) /\ ~Normalizes(frame)) =>
            /\ published' = published
            /\ cached' = cached
            /\ written' = written
            /\ clients'[c].stream # None
            /\ clients'[c].reader = "listening"]_vars

\* ------------------------------------------------------------------------
\* Client sessions (api/src/ws/server.rs)
\* ------------------------------------------------------------------------

\* an id no adapter is registered for in state.exchanges
UnknownVenue == "kraken"

\* the channels of a request that name one exchange, as handle_client_message
\* groups them: the exchange id, the market and the number of channels
Group(exchange, market_type, channels) ==
    [exchange |-> exchange, market_type |-> market_type, channels |-> channels]

\* what a client sends: a Subscribe or Unsubscribe with its channels grouped
\* by exchange (in the order the HashMap yields the groups), a Ping, text
\* that is no ClientMessage ("invalid"), or a binary frame
Request(op, groups) == [op |-> op, groups |-> groups]

\* the session has read no request yet
NoRequest == Request(None, << >>)

\* channels.len() of the request
RECURSIVE Channels(_)
Channels(groups) ==
    IF groups = << >> THEN 0 ELSE Head(groups).channels + Channels(Tail(groups))

\* StreamMessage::Info and StreamMessage::Error as the session sends them
Info(message, channels, exchanges) ==
    [type |-> "info", message |-> message, channels |-> channels,
     exchanges |-> exchanges]

Error(message) ==
    [type |-> "error", message |-> message, channels |-> 0, exchanges |-> 0]

\* a slot no client has connected on yet. request is the frame in hand or
\* answered last, todo its exchange groups still to do, call the slot of the
\* adapter call awaited; history: replies are the frames sent for the
\* request, before is the frame that came before a ping, asked the markets
\* the session subscribed
NoSession ==
    [pc |-> "idle", socket |-> "none", handle |-> 0, forwarder |-> "none",
     first |-> None, events |-> << >>, since |-> 0, call |-> 0, midcall |-> FALSE,
     request |-> NoRequest, before |-> None, todo |-> << >>, replies |-> << >>,
     asked |-> {}, guard |-> None, item |-> << >>]

\* the next connection takes the first slot that is idle
FirstIdle(s) ==
    sessions[s].pc = "idle" /\ \A j \in 1..(s - 1) : sessions[j].pc # "idle"

\* websocket_handler: the upgrade hands the socket to handle_socket
accept(s) ==
    /\ FirstIdle(s)
    /\ sessions' = [sessions EXCEPT ![s].pc = "welcome", ![s].socket = "open"]
    /\ UNCHANGED <<hubVars, adapterVars>>

\* the client goes away: its sends fail and receiver.next() ends the loop
client_close(s) ==
    /\ sessions[s].socket = "open"
    /\ sessions[s].pc # "ended"
    /\ sessions' = [sessions EXCEPT ![s].socket = "closed",
                                    ![s].midcall = (sessions[s].pc = "subscribing")]
    /\ UNCHANGED <<hubVars, adapterVars>>

\* the kind of the first frame written to the client, once one was written
FirstFrame(s, kind) == IF sessions[s].first = None THEN kind ELSE sessions[s].first

\* handle_socket: the welcome frame; a failed send returns
welcome(s) ==
    /\ sessions[s].pc = "welcome"
    /\ sessions' = IF sessions[s].socket = "open"
                   THEN [sessions EXCEPT ![s].pc = "register",
                                         ![s].first = FirstFrame(s, "info")]
                   ELSE [sessions EXCEPT ![s].pc = "ended"]
    /\ UNCHANGED <<hubVars, adapterVars>>

\* a handle_socket that registers with the hub before it sent the welcome
register_early(s) ==
    /\ sessions[s].pc = "welcome"
    /\ sessions[s].handle = 0
    /\ subscribe_all
    /\ sessions' = [sessions EXCEPT ![s].handle = NewHandle,
                                    ![s].since = Len(published),
                                    ![s].forwarder = "running"]

\* handle_socket: hub.subscribe_all() and the spawn of the forwarder task
register(s) ==
    /\ sessions[s].pc = "register"
    /\ subscribe_all
    /\ sessions' = [sessions EXCEPT ![s].pc = "serving",
                                    ![s].handle = NewHandle,
                                    ![s].since = Len(published),
                                    ![s].forwarder = "running"]

\* the call slots the requests of the sessions other than s are waiting on
Reserved(s) == {sessions[x].call : x \in DOMAIN sessions \ {s}} \ {0}

\* state.exchanges.get(exchange_id) finds the adapter
Registered(exchange) == exchange = venue

\* handle_client_message, the loop over the exchange groups up to its next
\* adapter call that has something to do: a group whose exchange is not
\* registered is logged with warn! and the loop goes on, and so it does after
\* an unsubscribe for a market without a client, which sends nothing
RECURSIVE Skip(_, _)
Skip(op, todo) ==
    IF todo = << >> THEN << >>
    ELSE IF \/ ~Registered(Head(todo).exchange)
            \/ op = "unsubscribe" /\ ws_clients[Head(todo).market_type] = NoClient
    THEN Skip(op, Tail(todo))
    ELSE todo

\* handle_client_message from the groups in rec.todo on: adapter.subscribe or
\* adapter.unsubscribe is called for the next group that has an adapter and
\* awaited; with no group left the reply is next
groups(s, i, rec) ==
    LET todo == Skip(rec.request.op, rec.todo)
        m == Head(todo).market_type
    IN  IF todo = << >>
        THEN /\ sessions' = [sessions EXCEPT
                    ![s] = [rec EXCEPT !.pc = "replying", !.call = 0, !.todo = << >>]]
             /\ UNCHANGED <<hubVars, adapterVars>>
        ELSE /\ i \notin Reserved(s)
             /\ IF rec.request.op = "subscribe"
                THEN subscribe_call(i, m) ELSE unsubscribe_call(i, m)
             /\ sessions' = [sessions EXCEPT
                    ![s] = [rec EXCEPT
                        !.pc = "subscribing", !.call = i, !.todo = Tail(todo),
                        !.asked = IF rec.request.op = "subscribe"
                                  THEN @ \cup {m} ELSE @]]

\* a main loop that breaks on text that is no ClientMessage
request_closing(s, i, req) ==
    /\ sessions[s].pc = "serving"
    /\ sessions[s].socket = "open"
    /\ IF req.op = "invalid"
       THEN /\ sessions' = [sessions EXCEPT
                    ![s].pc = "ended", ![s].request = req,
                    ![s].forwarder = IF @ = "running" THEN "aborted" ELSE @]
            /\ UNCHANGED <<hubVars, adapterVars>>
       ELSE groups(s, i, [sessions[s] EXCEPT !.request = req, !.todo = req.groups,
                                             !.replies = << >>,
                                             !.before = IF req.op = "ping"
                                                        THEN sessions[s].request.op
                                                        ELSE None])

\* the main loop reads a frame of the client; a text frame that parses goes
\* to handle_client_message, whose Subscribe and Unsubscribe arms group the
\* channels by exchange
request(s, i, req) ==
    /\ sessions[s].pc = "serving"
    /\ sessions[s].socket = "open"
    /\ groups(s, i, [sessions[s] EXCEPT !.request = req, !.todo = req.groups,
                                        !.replies = << >>,
                                        !.before = IF req.op = "ping"
                                                   THEN sessions[s].request.op
                                                   ELSE None])

\* the adapter call of a group has returned, its error is only logged, and
\* the loop goes on with the groups that are left
returned(s, i) ==
    /\ sessions[s].pc = "subscribing"
    /\ calls[sessions[s].call] = NoCall
    /\ groups(s, i, sessions[s])

\* a reply that counts the exchange groups where the channels are meant
ReplyGroups(req) ==
    IF req.op = "subscribe"
    THEN <<Info("Subscribed", Len(req.groups), Len(req.groups))>>
    ELSE IF req.op = "unsubscribe"
    THEN <<Info("Unsubscribed", Len(req.groups), 0)>>
    ELSE IF req.op = "ping" THEN <<Info("Pong", 0, 0)>>
    ELSE IF req.op = "invalid" THEN <<Error("Invalid message format")>>
    ELSE << >>

\* the frames the session answers a request with once its groups are done
Reply(req) ==
    IF req.op = "subscribe"
    THEN <<Info("Subscribed", Channels(req.groups), Len(req.groups))>>
    ELSE IF req.op = "unsubscribe"
    THEN <<Info("Unsubscribed", Channels(req.groups), 0)>>
    ELSE IF req.op = "ping" THEN <<Info("Pong", 0, 0)>>
    ELSE IF req.op = "invalid" THEN <<Error("Invalid message format")>>
    ELSE << >>

\* a session that only logs a Ping, as the main loop does with a Pong frame
reply_logged(s) ==
    /\ sessions[s].pc = "replying"
    /\ sessions[s].todo = << >>
    /\ LET sent == IF sessions[s].request.op = "ping"
                   THEN << >> ELSE Reply(sessions[s].request)
       IN sessions' = [sessions EXCEPT
            ![s].pc = "serving",
            ![s].replies = IF sessions[s].socket = "open" THEN @ \o sent ELSE @,
            ![s].first = IF sessions[s].socket = "open" /\ sent # << >>
                         THEN FirstFrame(s, "reply") ELSE @]
    /\ UNCHANGED <<hubVars, adapterVars>>

\* the reply is sent (a failed send is logged) and the loop goes back to
\* receiver.next()
reply(s) ==
    /\ sessions[s].pc = "replying"
    /\ sessions[s].todo = << >>
    /\ sessions' = [sessions EXCEPT
            ![s].pc = "serving",
            ![s].replies = IF sessions[s].socket = "open"
                           THEN @ \o Reply(sessions[s].request) ELSE @,
            ![s].first = IF sessions[s].socket = "open"
                            /\ Reply(sessions[s].request) # << >>
                         THEN FirstFrame(s, "reply") ELSE @]
    /\ UNCHANGED <<hubVars, adapterVars>>

\* a handle_socket that returns without forward_task.abort()
leave_detached(s) ==
    /\ sessions[s].pc = "serving"
    /\ sessions[s].socket = "closed"
    /\ sessions' = [sessions EXCEPT ![s].pc = "ended"]
    /\ UNCHANGED <<hubVars, adapterVars>>

\* receiver.next() returns None, Close or an error: the loop breaks and
\* handle_socket aborts the forwarder task
leave(s) ==
    /\ sessions[s].pc = "serving"
    /\ sessions[s].socket = "closed"
    /\ sessions' = [sessions EXCEPT ![s].pc = "ended",
                        ![s].forwarder = IF @ \in {"running", "locking", "sending"}
                                         THEN "aborted" ELSE @,
                        ![s].guard = IF @ = "forwarder" THEN None ELSE @,
                        ![s].item = << >>]
    /\ UNCHANGED <<hubVars, adapterVars>>

\* what the forwarder's stream_receiver.recv() returns next
NextItem(s) ==
    RecvResult(global_sender, handles[sessions[s].handle].next).item

\* the forwarder task: recv() returns; an event is written to the socket,
\* and a failed write or any recv error (Lagged included) breaks the loop
forward(s) ==
    /\ sessions[s].forwarder = "running"
    /\ recv(sessions[s].handle)
    /\ sessions' =
        IF "value" \in DOMAIN NextItem(s) /\ sessions[s].socket = "open"
        THEN [sessions EXCEPT ![s].events = Append(@, NextItem(s).value[2]),
                              ![s].first = FirstFrame(s, "event")]
        ELSE [sessions EXCEPT ![s].forwarder = "exiting"]

\* the forwarder task ends, by itself or cancelled at its await point: its
\* GlobalSubscriberHandle is dropped
forwarder_drop(s) ==
    /\ sessions[s].forwarder \in {"exiting", "aborted"}
    /\ drop(sessions[s].handle)
    /\ sessions' = [sessions EXCEPT ![s].forwarder = "done"]

\* the steps of a subscribe()/unsubscribe() call a session is waiting on
call_step(i) ==
    \/ \E ok \in BOOLEAN : connect(i, ok)
    \/ install(i)
    \/ reinstall(i)
    \/ resend_get(i)
    \/ \E ok \in BOOLEAN : send_text(i, ok)
    \/ clear_ws_if_current(i)

\* the steps of a session's main task that wait on nothing but the scheduler
main_step(s) ==
    \/ welcome(s)
    \/ register(s)
    \/ \E i \in 1..MaxCalls : returned(s, i)
    \/ reply(s)
    \/ leave(s)

\* the steps of a session's forwarder task
forwarder_step(s) == forward(s) \/ forwarder_drop(s)

\* the channels the clients ask for and the events are published on
SessionTopics == {ticker(venue, "spot", BTCUSDT)}

\* the request of the clients whose events are followed: a Subscribe of one
\* channel
SessionRequests ==
    {Request("subscribe", <<Group(t.exchange, t.market_type, 1)>>) :
        t \in SessionTopics}

NextSession ==
    \/ \E s \in 1..MaxSessions : accept(s)
    \/ \E s \in 1..MaxSessions : client_close(s)
    \/ \E s \in 1..MaxSessions : welcome(s)
    \/ \E s \in 1..MaxSessions : register(s)
    \/ \E s \in 1..MaxSessions, i \in 1..MaxCalls, req \in SessionRequests :
            request(s, i, req)
    \/ \E s \in 1..MaxSessions, i \in 1..MaxCalls : returned(s, i)
    \/ \E s \in 1..MaxSessions : reply(s)
    \/ \E s \in 1..MaxSessions : leave(s)
    \/ \E s \in 1..MaxSessions : forward(s)
    \/ \E s \in 1..MaxSessions : forwarder_drop(s)
    \/ \E i \in 1..MaxCalls, ok \in BOOLEAN : connect(i, ok)
    \/ \E i \in 1..MaxCalls : install(i)
    \/ \E i \in 1..MaxCalls : reinstall(i)
    \/ \E i \in 1..MaxCalls : resend_get(i)
    \/ \E i \in 1..MaxCalls, ok \in BOOLEAN : send_text(i, ok)
    \/ \E i \in 1..MaxCalls : clear_ws_if_current(i)
    \/ \E t \in SessionTopics : publish(t)

\* the sessions while the adapter publishes the events of MaxFrames frames
NextFair ==
    \/ \E s \in 1..MaxSessions : accept(s)
    \/ \E s \in 1..MaxSessions : client_close(s)
    \/ \E s \in 1..MaxSessions : welcome(s)
    \/ \E s \in 1..MaxSessions : register(s)
    \/ \E s \in 1..MaxSessions, i \in 1..MaxCalls, req \in SessionRequests :
            request(s, i, req)
    \/ \E s \in 1..MaxSessions, i \in 1..MaxCalls : returned(s, i)
    \/ \E s \in 1..MaxSessions : reply(s)
    \/ \E s \in 1..MaxSessions : leave(s)
    \/ \E s \in 1..MaxSessions : forward(s)
    \/ \E s \in 1..MaxSessions : forwarder_drop(s)
    \/ \E i \in 1..MaxCalls, ok \in BOOLEAN : connect(i, ok)
    \/ \E i \in 1..MaxCalls : install(i)
    \/ \E i \in 1..MaxCalls : reinstall(i)
    \/ \E i \in 1..MaxCalls : resend_get(i)
    \/ \E i \in 1..MaxCalls, ok \in BOOLEAN : send_text(i, ok)
    \/ \E i \in 1..MaxCalls : clear_ws_if_current(i)
    \/ \E t \in SessionTopics : Len(published) < MaxFrames /\ publish(t)

\* main.rs: the hub and the cache are created and the adapter started before
\* the server accepts connections
InitSession ==
    /\ HubInit
    /\ venue \in Venues
    /\ retry = NoRetry
    /\ locks = Unlocked
    /\ subs = NoSubs
    /\ hub = "hub"
    /\ cache = "cache"
    /\ cached = {}
    /\ written = << >>
    /\ ws_clients = [m \in SUPPORTED_MARKETS |-> NoClient]
    /\ clients = << >>
    /\ calls = [i \in 1..MaxCalls |-> NoCall]
    /\ subscribe_called = FALSE
    /\ stopped = FALSE
    /\ sessions = [s \in 1..MaxSessions |-> NoSession]

SpecSession == InitSession /\ [][NextSession]_vars

\* the tokio runtime runs every task that is ready: a session's main task,
\* its forwarder task, and the adapter call it awaits (connects and sends
\* return, with a result or an error)
FairSession ==
    /\ InitSession /\ [][NextFair]_vars
    /\ \A s \in 1..MaxSessions : WF_vars(main_step(s))
    /\ \A s \in 1..MaxSessions : WF_vars(forwarder_step(s))
    /\ \A i \in 1..MaxCalls : WF_vars(call_step(i))

\* C17: the first frame a session sends is the Info event with the session
\* id; the global hub subscription is registered only after that frame was
\* sent, and a session whose welcome could not be sent ends without one.
C17_WelcomeBeforeRegistration ==
    \A s \in DOMAIN sessions :
        /\ sessions[s].first \in {None, "info"}
        /\ sessions[s].handle # 0 => sessions[s].first = "info"
        /\ (sessions[s].pc = "ended" /\ sessions[s].first = None) =>
                sessions[s].handle = 0 /\ sessions[s].forwarder = "none"

\* a session sent its welcome, registered after it and has forwarded an event
C17_Witness ==
    \E s \in DOMAIN sessions :
        /\ sessions[s].first = "info" /\ Live(sessions[s].handle)
        /\ Len(sessions[s].events) > 0

\* the session's main loop is running and its client is connected
Serving(s) ==
    /\ sessions[s].pc \in {"serving", "subscribing", "replying"}
    /\ sessions[s].socket = "open"

\* the forwarder has nothing left to read from the hub
CaughtUp(s) ==
    sessions[s].forwarder = "running" =>
        handles[sessions[s].handle].next = global_sender.pos

\* the ids of the events published since the session registered, in hub order
EventsSince(s) ==
    [k \in 1..(Len(published) - sessions[s].since) |->
        published[sessions[s].since + k][2]]

\* C18: every event published after a session registered, and before it
\* ends, is written to its socket in hub order, whatever the session
\* subscribed to: once the forwarder has nothing left to read, the events
\* written are the events published.
C18_EveryEventForwarded ==
    \A s \in DOMAIN sessions :
        (Serving(s) /\ CaughtUp(s)) => sessions[s].events = EventsSince(s)

\* the forwarder's recv() returns Lagged in this step
ForwarderLagged(s) ==
    /\ sessions[s].forwarder = "running"
    /\ forward(s)
    /\ "lagged" \in DOMAIN NextItem(s)

\* C19: a forwarder whose receiver reports lagged is not terminated: it goes
\* on to the next available event.
C19_LagKeepsForwarder ==
    [][\A s \in DOMAIN sessions :
        ForwarderLagged(s) => sessions'[s].forwarder = "running"]_vars

\* the sessions that hold a live global subscription
Subscribed == {s \in DOMAIN sessions : Live(sessions[s].handle)}

\* the session's forwarder is gone and its subscription is released: the
\* count is what the other sessions' subscriptions make it
SessionReleased(s) ==
    /\ sessions[s].forwarder \in {"none", "done"}
    /\ s \notin Subscribed
    /\ global_subscriber_count = Cardinality(Subscribed \ {s})

\* C20: after a session's client is gone, also while a subscribe request of
\* it is still in progress, its forwarder is cancelled and its global
\* subscription is released, so global_subscriber_count eventually is what
\* it would be without the session.
C20_SessionEndReleases ==
    \A s \in 1..MaxSessions :
        (sessions[s].socket = "closed") ~> SessionReleased(s)

\* a session whose client left during a subscribe call has ended, and the
\* subscription it held is released
C20_Witness ==
    \E s \in DOMAIN sessions :
        /\ sessions[s].pc = "ended" /\ sessions[s].midcall
        /\ sessions[s].handle # 0
        /\ SessionReleased(s)

\* the client connections of the server while the readers of the adapter
\* run: one more than the sessions followed, so that a session that never
\* subscribes is connected beside one that does
Connections == MaxSessions + 1

\* the sessions, the adapter calls they make and the readers of the
\* connections those calls open
NextTeardown ==
    \/ \E s \in 1..Connections : accept(s)
    \/ \E s \in 1..Connections : client_close(s)
    \/ \E s \in 1..Connections : welcome(s)
    \/ \E s \in 1..Connections : register(s)
    \/ \E s \in 1..Connections, i \in 1..MaxCalls, req \in SessionRequests :
            request(s, i, req)
    \/ \E s \in 1..Connections, i \in 1..MaxCalls : returned(s, i)
    \/ \E s \in 1..Connections : reply(s)
    \/ \E s \in 1..Connections : leave(s)
    \/ \E s \in 1..Connections : forwarder_drop(s)
    \/ \E i \in 1..MaxCalls, ok \in BOOLEAN : connect(i, ok)
    \/ \E i \in 1..MaxCalls : install(i)
    \/ \E i \in 1..MaxCalls : reinstall(i)
    \/ \E i \in 1..MaxCalls : resend_get(i)
    \/ \E i \in 1..MaxCalls, ok \in BOOLEAN : send_text(i, ok)
    \/ \E i \in 1..MaxCalls : clear_ws_if_current(i)
    \/ \E c \in 1..MaxClients, frame \in AllFrames : read_frame(c, frame)
    \/ \E c \in 1..MaxClients : disconnect(c)

\* main.rs: the hub and the cache are created and the adapter started before
\* the server accepts connections
InitServer ==
    /\ HubInit
    /\ venue \in Venues
    /\ retry = NoRetry
    /\ locks = Unlocked
    /\ subs = NoSubs
    /\ hub = "hub"
    /\ cache = "cache"
    /\ cached = {}
    /\ written = << >>
    /\ ws_clients = [m \in SUPPORTED_MARKETS |-> NoClient]
    /\ clients = << >>
    /\ calls = [i \in 1..MaxCalls |-> NoCall]
    /\ subscribe_called = FALSE
    /\ stopped = FALSE
    /\ sessions = [s \in 1..Connections |-> NoSession]

\* a group of n channels that names the registered exchange
Known(n) == Group(venue, "spot", n)

\* a group that names an exchange without an adapter
Unknown == Group(UnknownVenue, "spot", 1)

\* the frames a client sends: requests for MaxChannels channels of the
\* registered exchange, requests that also name an unknown exchange, whose
\* group the HashMap yields first or last, a ping, text that is no
\* ClientMessage and a binary frame
ClientRequests ==
    {Request(op, gl) :
        op \in {"subscribe", "unsubscribe"},
        gl \in {<<Known(MaxChannels)>>, <<Unknown, Known(1)>>}}
        \cup {Request("subscribe", <<Known(1), Unknown>>)}
        \cup {Request(op, << >>) : op \in {"ping", "invalid", "binary"}}

\* the sessions answering the frames of their clients
NextRequests ==
    \/ \E s \in 1..MaxSessions : accept(s)
    \/ \E s \in 1..MaxSessions : client_close(s)
    \/ \E s \in 1..MaxSessions : welcome(s)
    \/ \E s \in 1..MaxSessions : register(s)
    \/ \E s \in 1..MaxSessions, i \in 1..MaxCalls, req \in ClientRequests :
            request(s, i, req)
    \/ \E s \in 1..MaxSessions, i \in 1..MaxCalls : returned(s, i)
    \/ \E s \in 1..MaxSessions : reply(s)
    \/ \E s \in 1..MaxSessions : leave(s)
    \/ \E s \in 1..MaxSessions : forwarder_drop(s)
    \/ \E i \in 1..MaxCalls, ok \in BOOLEAN : connect(i, ok)
    \/ \E i \in 1..MaxCalls : install(i)
    \/ \E i \in 1..MaxCalls : reinstall(i)
    \/ \E i \in 1..MaxCalls : resend_get(i)
    \/ \E i \in 1..MaxCalls, ok \in BOOLEAN : send_text(i, ok)
    \/ \E i \in 1..MaxCalls : clear_ws_if_current(i)

SpecRequests == InitSession /\ [][NextRequests]_vars

\* the session has answered its last request and its client is still there
Answered(s) ==
    /\ sessions[s].pc = "serving"
    /\ sessions[s].socket = "open"
    /\ sessions[s].request # NoRequest

\* the request names an exchange no adapter is registered for
HasUnknown(req) ==
    \E k \in DOMAIN req.groups : ~Registered(req.groups[k].exchange)

\* the channels of the request, counted one by one
Requested(req) ==
    Cardinality({p \in (DOMAIN req.groups) \X (1..MaxChannels) :
                    p[2] <= req.groups[p[1]].channels})

\* C22: a Subscribe that names an exchange with no registered adapter is
\* answered with an Error event for that exchange's group.
C22_UnknownVenueError ==
    \A s \in DOMAIN sessions :
        (Answered(s) /\ sessions[s].request.op = "subscribe"
                     /\ HasUnknown(sessions[s].request))
        => \E j \in DOMAIN sessions[s].replies : sessions[s].replies[j].type = "error"

\* the session sends its first frame for the request in hand in this step
Replies(s) == sessions[s].replies = << >> /\ sessions'[s].replies # << >>

\* C23: a Subscribe or Unsubscribe is answered with exactly one Info frame,
\* which is sent when no group is left and no adapter call is pending, and
\* which carries the number of channels of the request.
C23_OneInfoReply ==
    /\ [](\A s \in DOMAIN sessions :
            (Answered(s) /\ sessions[s].request.op \in {"subscribe", "unsubscribe"})
            => /\ Len(sessions[s].replies) = 1
               /\ sessions[s].replies[1].type = "info"
               /\ sessions[s].replies[1].channels = Requested(sessions[s].request))
    /\ [][\A s \in DOMAIN sessions :
            Replies(s) => /\ sessions[s].todo = << >>
                          /\ sessions[s].call = 0
                          /\ \A i \in DOMAIN calls : calls[i] = NoCall
                                \/ i \in Reserved(s)]_vars

\* a Subscribe of several channels of one exchange, whose adapter call was
\* made, is answered
C23_Witness ==
    \E s \in DOMAIN sessions :
        /\ Answered(s)
        /\ sessions[s].request = Request("subscribe", <<Known(MaxChannels)>>)
        /\ sessions[s].asked # {}
        /\ sessions[s].replies = <<Info("Subscribed", MaxChannels, 1)>>

\* the session reads text that is no ClientMessage, or answers it, in this step
HandlesInvalid(s) ==
    \/ \E i \in 1..MaxCalls : request(s, i, Request("invalid", << >>))
    \/ sessions[s].request.op = "invalid" /\ reply(s)

\* C24: text that is no ClientMessage is answered with exactly one Error
\* event; no adapter call is made and nothing of the hub changes, and the
\* session goes on reading, so a ping that follows is answered with Pong.
C24_InvalidFrameError ==
    /\ [](\A s \in DOMAIN sessions :
            /\ (Answered(s) /\ sessions[s].request.op = "invalid")
               => sessions[s].replies = <<Error("Invalid message format")>>
            /\ (Answered(s) /\ sessions[s].before = "invalid")
               => sessions[s].replies = <<Info("Pong", 0, 0)>>)
    /\ [][\A s \in DOMAIN sessions :
            HandlesInvalid(s)
            => /\ UNCHANGED <<hubVars, adapterVars>>
               /\ sessions'[s].socket = sessions[s].socket
               /\ sessions'[s].pc \in {"replying", "serving"}]_vars

\* a ping that followed text that is no ClientMessage is answered
C24_Witness ==
    \E s \in DOMAIN sessions :
        /\ Answered(s)
        /\ sessions[s].request.op = "ping"
        /\ sessions[s].before = "invalid"
        /\ sessions[s].replies = <<Info("Pong", 0, 0)>>

Asked(m) == {s \in DOMAIN sessions : m \in sessions[s].asked}

\* every session that subscribed to channels of market m has closed and its
\* subscription is released
Abandoned(m) ==
    /\ Asked(m) # {}
    /\ \A s \in Asked(m) : sessions[s].pc = "ended" /\ SessionReleased(s)

\* C21: once the sessions that subscribed to a market's topics have closed,
\* the next ticker frame on that market's upstream connection makes the
\* reader tear the connection down, whether or not sessions that never
\* subscribed are still connected.
C21_TeardownAfterSessionEnd ==
    [][\A c \in DOMAIN clients, frame \in AllFrames :
        (/\ read_frame(c, frame)
         /\ Handled(frame.data) # << >>
         /\ Abandoned(clients[c].market_type))
        => clients'[c].reader = "teardown"]_vars

SpecTeardown == InitServer /\ [][NextTeardown]_vars

\* ------------------------------------------------------------------------
\* parse_symbol: the symbol of an upstream ticker as a canonical Symbol

\* the String whose characters are given
String(seq) == CHOOSE str \in DOMAIN Spelling : Spelling[str] = seq

\* what parse_symbol returns as Err
Unsupported == [base |-> None, quote |-> None]

\* SymbolMapper::load_defaults, the entries of the symbols that occur here:
\* exchange symbol -> canonical symbol, the same for both exchanges
load_defaults ==
    (chars("BTC") \o chars("USDT")) :> BTCUSDT
        @@ (chars("ETH") \o chars("USDT")) :> ETHUSDT

\* SymbolMapper::to_canonical
to_canonical(exchange_symbol) ==
    IF exchange_symbol \in DOMAIN load_defaults
    THEN load_defaults[exchange_symbol]
    ELSE Unsupported

\* str::ends_with
ends_with(str, suffix) ==
    /\ Len(str) >= Len(suffix)
    /\ SubSeq(str, Len(str) - Len(suffix) + 1, Len(str)) = suffix

\* the if / else-if chain of parse_symbol over the quotes it names, in order:
\* the first suffix that matches is the quote, what is before it the base
RECURSIVE strip_suffix(_, _)
strip_suffix(str, quotes) ==
    IF quotes = << >>
    THEN Unsupported
    ELSE IF ends_with(str, chars(Head(quotes)))
         THEN [base |-> String(SubSeq(str, 1, Len(str) - Len(chars(Head(quotes))))),
               quote |-> Head(quotes)]
         ELSE strip_suffix(str, Tail(quotes))

\* the suffixes BinanceAdapter::parse_symbol tests, in its order
BinanceQuotes == <<"USDT", "USDC", "TUSD", "BTC", "ETH">>

\* the suffixes BybitAdapter::parse_symbol tests, in its order
BybitQuotes == <<"USDT", "USDC", "BUSD", "TUSD", "BTC", "ETH", "USD">>

\* str::split(|c| c == '_' || c == '.').next(): what is before the first
\* '_' or '.'
RECURSIVE primary(_)
primary(str) ==
    IF str = << >> \/ Head(str) \in {"_", "."}
    THEN << >>
    ELSE <<Head(str)>> \o primary(Tail(str))

\* str::replace('/', "")
sanitized(str) == SelectSeq(str, LAMBDA ch : ch # "/")

\* BinanceAdapter::parse_symbol / BybitAdapter::parse_symbol
parse_symbol(exchange_symbol) ==
    IF venue = "binance"
    THEN IF to_canonical(exchange_symbol) # Unsupported
         THEN to_canonical(exchange_symbol)
         ELSE strip_suffix(exchange_symbol, BinanceQuotes)
    ELSE strip_suffix(to_uppercase(sanitized(primary(exchange_symbol))), BybitQuotes)

\* the symbols of the tickers a venue sends: a mapped one, one base with
\* each quote of the venues, a cross of two of the quotes, and one whose
\* quote no adapter knows
VenueSymbols ==
    {chars("BTC") \o chars("USDT"), chars("ETH") \o chars("BTC"),
     <<"X", "E", "U", "R">>}
    \cup {chars("X") \o chars(BybitQuotes[k]) : k \in DOMAIN BybitQuotes}

\* listen_for_messages gets a ticker frame with the symbol as the venue
\* writes it: handle_ticker parses the symbol first and returns the error of
\* parse_symbol with `?`, which handle_message's caller logs; a parsed symbol
\* goes on as in read_ticker
read_symbol(c, exchange_symbol) ==
    /\ c \in DOMAIN clients
    /\ clients[c].reader = "listening"
    /\ clients[c].stream # None
    /\ clients[c].subscribed
    /\ UNCHANGED <<handles, received, since>>
    /\ UNCHANGED <<retry, locks, subs, venue, stopped, hub, cache, ws_clients, calls, subscribe_called>>
    /\ UNCHANGED sessionVars
    /\ LET symbol == parse_symbol(exchange_symbol)
           topic == ticker(venue, clients[c].market_type, symbol)
           message == Len(published) + 1
           stored == Ticker(venue, clients[c].market_type, symbol, 1)
       IN IF symbol = Unsupported
          THEN /\ clients' = [clients EXCEPT ![c].stale = FALSE]
               /\ UNCHANGED <<cached, written, topics, global_sender, published>>
          ELSE /\ cached' = IF cache # None THEN Stored(stored) ELSE cached
               /\ written' = IF cache # None THEN Append(written, stored) ELSE written
               /\ IF hub # None
                  THEN /\ Len(published) < MaxFrames
                       /\ topics' = PublishedTopics(topic, message)
                       /\ global_sender' = PublishedGlobal(topic, message)
                       /\ published' = Append(published, <<topic, message>>)
                  ELSE UNCHANGED <<topics, global_sender, published>>
               /\ clients' = IF should_disconnect(topic)
                             THEN [clients EXCEPT ![c].reader = "teardown",
                                                  ![c].topic = topic,
                                                  ![c].stale = FALSE,
                                                  ![c].seen = HandleStates]
                             ELSE [clients EXCEPT ![c].stale = FALSE]

\* the started adapter and the tickers of its connections
NextSymbols ==
    \/ NextMarkets
    \/ \E c \in 1..MaxClients, s \in VenueSymbols : read_symbol(c, s)

SpecSymbols == InitMarkets /\ [][NextSymbols]_vars

\* the quotes of the fallback, in the order the specification gives
QuoteSuffixes == <<"USDT", "USDC", "BUSD", "TUSD", "BTC", "ETH", "USD">>

\* C31: a venue symbol that is not in the prepopulated mapping is parsed by
\* stripping the first matching quote of [USDT, USDC, BUSD, TUSD, BTC, ETH,
\* USD], what is before it being the base; a symbol that ends in none of
\* them is an error and its event is dropped without being published.
C31_ParseFallback ==
    /\ [](\A s \in VenueSymbols :
            s \notin DOMAIN load_defaults
            => parse_symbol(s) = strip_suffix(s, QuoteSuffixes))
    /\ [][\A c \in DOMAIN clients, s \in VenueSymbols :
            (read_symbol(c, s) /\ s \notin DOMAIN load_defaults)
            => IF strip_suffix(s, QuoteSuffixes) = Unsupported
               THEN UNCHANGED <<published, cached, written>>
               ELSE published' = Append(published,
                        <<ticker(venue, clients[c].market_type,
                                 strip_suffix(s, QuoteSuffixes)),
                          Len(published) + 1>>)]_vars

Init == HubInit /\ AdapterInit("binance") /\ sessions = << >>

\* the topics clients of the hub name: Topic::from_channel takes the
\* exchange id and the symbol of a channel as they are
KeyTopics ==
    {ticker("binance", m, sym) : m \in MarketType, sym \in {BTCUSDT, AB_C, A_BC}}

\* the hub under subscribers and publishers of these topics
NextKeys ==
    \/ \E t \in KeyTopics : subscribe(t)
    \/ \E t \in KeyTopics : publish(t)
    \/ \E h \in 1..MaxHandles : recv(h) /\ UNCHANGED sessionVars
    \/ \E h \in 1..MaxHandles : drop(h) /\ UNCHANGED sessionVars

SpecKeys == Init /\ [][NextKeys]_vars

\* C29: Topic.key is injective: two topics that are subscribed have the same
\* key exactly if their channel kind, exchange, market and symbol are the
\* same, so distinct topics never share a per-topic channel.
C29_KeyInjective ==
    \A g \in DOMAIN handles, h \in DOMAIN handles :
        (handles[g].kind = "topic" /\ handles[h].kind = "topic")
        => (key(handles[g].topic) = key(handles[h].topic)
                <=> handles[g].topic = handles[h].topic)

\* ------------------------------------------------------------------------
\* exchanges/common retry.rs: retry_with_backoff

\* what one invocation of the operation returns: Ok with a value, or Err
\* with one of two errors
Outcomes ==
    {[ok |-> TRUE, value |-> "success"],
     [ok |-> FALSE, value |-> "failure"], [ok |-> FALSE, value |-> "refused"]}

\* everything but the retry call stays as it is
RetryFrame ==
    /\ UNCHANGED <<locks, subs, venue, hub, cache, cached, written, ws_clients, clients, calls,
                   subscribe_called, stopped>>
    /\ UNCHANGED hubVars
    /\ UNCHANGED sessionVars

\* retry_with_backoff(f, config) is called: attempts = 0 and the loop begins
retry_with_backoff(max_attempts) ==
    /\ retry.pc \in {"idle", "returned"}
    /\ retry' = [NoRetry EXCEPT !.pc = "calling", !.max_attempts = max_attempts]
    /\ RetryFrame

\* a pass of the loop that counts an attempt past max_attempts before it
\* gives up
attempt_past(outcome) ==
    /\ retry.pc = "calling"
    /\ retry' =
        [retry EXCEPT
            !.attempts = @ + 1,
            !.outcomes = Append(@, outcome),
            !.result = IF outcome.ok \/ retry.attempts + 1 > retry.max_attempts
                       THEN outcome ELSE @,
            !.pc = IF outcome.ok \/ retry.attempts + 1 > retry.max_attempts
                   THEN "returned" ELSE "backoff"]
    /\ RetryFrame

\* one pass of the loop: attempts += 1, f().await, and the match on what it
\* returned: Ok returns it, Err returns the error once attempts >=
\* max_attempts and goes to exponential_backoff otherwise
attempt(outcome) ==
    /\ retry.pc = "calling"
    /\ retry' =
        [retry EXCEPT
            !.attempts = @ + 1,
            !.outcomes = Append(@, outcome),
            !.result = IF outcome.ok \/ retry.attempts + 1 >= retry.max_attempts
                       THEN outcome ELSE @,
            !.pc = IF outcome.ok \/ retry.attempts + 1 >= retry.max_attempts
                   THEN "returned" ELSE "backoff"]
    /\ RetryFrame

\* exponential_backoff(attempts, config): the sleep of calculate_delay's
\* delay ends and the loop goes round
exponential_backoff ==
    /\ retry.pc = "backoff"
    /\ retry' = [retry EXCEPT !.pc = "calling"]
    /\ RetryFrame

\* callers of retry_with_backoff with every max_attempts up to the bound
NextRetry ==
    \/ \E max_attempts \in 0..MaxAttempts : retry_with_backoff(max_attempts)
    \/ \E outcome \in Outcomes : attempt(outcome)
    \/ exponential_backoff

SpecRetry == Init /\ [][NextRetry]_vars

\* the operation's future and the sleep of the backoff complete
FairRetry ==
    /\ SpecRetry
    /\ WF_vars(\E outcome \in Outcomes : attempt(outcome))
    /\ WF_vars(exponential_backoff)

\* the invocations of the operation that failed
Failed == {k \in DOMAIN retry.outcomes : ~retry.outcomes[k].ok}

\* what the call has done when it returned, with Limit the most invocations
\* it may make: it stopped at the first success and returned it, or at
\* Limit failures and returned the last error
RetryReturns(Limit) ==
    /\ Len(retry.outcomes) <= Limit
    /\ retry.pc = "returned"
        => /\ retry.outcomes # << >>
           /\ retry.result = retry.outcomes[Len(retry.outcomes)]
           /\ \A k \in 1..(Len(retry.outcomes) - 1) : k \in Failed
           /\ ~retry.result.ok => Len(retry.outcomes) = Limit

\* C32 as stated: the operation is invoked until it first succeeds, which is
\* returned, or until max_attempts invocations failed, the last error being
\* returned; it is never invoked more than max_attempts times, for every
\* max_attempts, and the call always terminates.
C32_RetryBounded ==
    /\ [](RetryReturns(retry.max_attempts))
    /\ (retry.pc = "calling") ~> (retry.pc = "returned")

\* C32, amended: the same with at most max_attempts invocations when
\* max_attempts >= 1 and exactly one invocation when max_attempts = 0.
C32_RetryBoundedFromOne ==
    /\ [](RetryReturns(IF retry.max_attempts = 0 THEN 1 ELSE retry.max_attempts))
    /\ (retry.pc = "calling") ~> (retry.pc = "returned")

\* a call with max_attempts > 1 has returned the last error after
\* max_attempts failed invocations with a backoff between them
C32_Witness ==
    /\ retry.pc = "returned"
    /\ retry.max_attempts > 1
    /\ Len(retry.outcomes) = retry.max_attempts
    /\ Failed = DOMAIN retry.outcomes
    /\ retry.result = retry.outcomes[retry.max_attempts]

\* ------------------------------------------------------------------------
\* The adapter's mutexes: the steps of the reader task, of stop() and of the
\* calls, with the guards they hold from one await to the next
\* ------------------------------------------------------------------------

\* the guard a reader task holds, with the client it took out of the map
ReaderGuard(c, taken) == [kind |-> "reader", id |-> c, taken |-> taken]

\* the guard stop() holds
StopGuard(taken) == [kind |-> "stop", id |-> 0, taken |-> taken]

\* the mutexes a reader task holds
HeldBy(c) == {mu \in DOMAIN locks : locks[mu].kind = "reader" /\ locks[mu].id = c}

\* everything but the reader tasks and the guards stays as it is
ReaderFrame ==
    /\ UNCHANGED <<retry, subs, venue, stopped, hub, cache, ws_clients, calls, subscribe_called>>
    /\ UNCHANGED sessionVars

\* listen_for_messages gets a ticker frame that parses, with `last` its last
\* price: handle_ticker has normalized the ticker and comes to
\* self.cache.lock().await
ticker_priced(c, symbol, last) ==
    /\ c \in DOMAIN clients
    /\ clients[c].reader = "listening"
    /\ clients[c].stream # None
    /\ clients[c].subscribed
    /\ symbol \in SymbolsOf(clients[c].market_type)
    /\ clients' = [clients EXCEPT ![c].reader = "cache_lock", ![c].stale = FALSE,
                        ![c].topic = ticker(venue, clients[c].market_type, symbol),
                        ![c].last = last]
    /\ UNCHANGED <<locks, cached, written>>
    /\ UNCHANGED hubVars
    /\ ReaderFrame

\* the ticker handle_ticker has normalized and not yet published
normalized_ticker(c) ==
    Ticker(venue, clients[c].topic.market_type, clients[c].topic.symbol,
           clients[c].last)

\* the ticker frames of a venue that quotes one price, up to MaxFrames of
\* them
ticker_in(c, symbol) ==
    /\ Len(published) < MaxFrames
    /\ ticker_priced(c, symbol, 1)

\* handle_ticker: self.cache.lock().await returns the guard
lock_cache(c) ==
    /\ c \in DOMAIN clients
    /\ clients[c].reader = "cache_lock"
    /\ locks.cache = Free
    /\ locks' = [locks EXCEPT !.cache = ReaderGuard(c, 0)]
    /\ clients' = [clients EXCEPT ![c].reader = "set_ticker"]
    /\ UNCHANGED <<cached, written>>
    /\ UNCHANGED hubVars
    /\ ReaderFrame

\* a handle_ticker that keeps the guard of the cache mutex while it goes on
\* to self.hub.lock().await
set_ticker_held(c) ==
    /\ c \in DOMAIN clients
    /\ clients[c].reader = "set_ticker"
    /\ LET stored == normalized_ticker(c)
       IN /\ cached' = IF cache # None THEN Stored(stored) ELSE cached
          /\ written' = IF cache # None THEN Append(written, stored) ELSE written
    /\ clients' = [clients EXCEPT ![c].reader = "hub_lock"]
    /\ UNCHANGED locks
    /\ UNCHANGED hubVars
    /\ ReaderFrame

\* a handle_ticker that goes on to the hub without the cache write
set_ticker_skipped(c) ==
    /\ c \in DOMAIN clients
    /\ clients[c].reader = "set_ticker"
    /\ locks' = [locks EXCEPT !.cache = Free]
    /\ clients' = [clients EXCEPT ![c].reader = "hub_lock"]
    /\ UNCHANGED <<cached, written>>
    /\ UNCHANGED hubVars
    /\ ReaderFrame

\* handle_ticker: cache.set_ticker(..).await under the guard of the cache
\* mutex, which the end of the `if let` drops; then self.hub.lock().await
set_ticker_done(c) ==
    /\ c \in DOMAIN clients
    /\ clients[c].reader = "set_ticker"
    /\ LET stored == normalized_ticker(c)
       IN /\ cached' = IF cache # None THEN Stored(stored) ELSE cached
          /\ written' = IF cache # None THEN Append(written, stored) ELSE written
    /\ locks' = [locks EXCEPT !.cache = Free]
    /\ clients' = [clients EXCEPT ![c].reader = "hub_lock"]
    /\ UNCHANGED hubVars
    /\ ReaderFrame

\* handle_ticker: self.hub.lock().await returns the guard
lock_hub(c) ==
    /\ c \in DOMAIN clients
    /\ clients[c].reader = "hub_lock"
    /\ locks.hub = Free
    /\ locks' = [locks EXCEPT !.hub = ReaderGuard(c, 0)]
    /\ clients' = [clients EXCEPT ![c].reader = "publish"]
    /\ UNCHANGED <<cached, written>>
    /\ UNCHANGED hubVars
    /\ ReaderFrame

\* handle_ticker: hub.publish(..).await under the guard of the hub mutex,
\* which the end of the `if let` drops; then disconnect_if_no_subscribers
\* comes to self.hub.lock().await
publish_done(c) ==
    /\ c \in DOMAIN clients
    /\ clients[c].reader = "publish"
    /\ LET message == normalized_ticker(c) IN
        IF hub # None
        THEN /\ topics' = PublishedTopics(clients[c].topic, message)
             /\ global_sender' = PublishedGlobal(clients[c].topic, message)
             /\ published' = Append(published, <<clients[c].topic, message>>)
        ELSE UNCHANGED <<topics, global_sender, published>>
    /\ locks' = [locks EXCEPT !.hub = Free]
    /\ clients' = [clients EXCEPT ![c].reader = "count_lock"]
    /\ UNCHANGED <<handles, received, since>>
    /\ UNCHANGED <<cached, written>>
    /\ ReaderFrame

\* disconnect_if_no_subscribers: the block that locks the hub, reads the two
\* counts and drops the guard at its end; then self.ws_clients.lock().await
\* if should_disconnect
count(c) ==
    /\ c \in DOMAIN clients
    /\ clients[c].reader = "count_lock"
    /\ locks.hub = Free
    /\ clients' =
        IF hub # None /\ global_subscriber_count = 0
                /\ subscriber_count(clients[c].topic) = 0
        THEN [clients EXCEPT ![c].reader = "teardown", ![c].seen = HandleStates]
        ELSE [clients EXCEPT ![c].reader = "listening", ![c].topic = NoTopic,
                             ![c].last = 0]
    /\ UNCHANGED <<locks, cached, written>>
    /\ UNCHANGED hubVars
    /\ ReaderFrame

\* disconnect_if_no_subscribers: self.ws_clients.lock().await returns the
\* guard and entry.take() empties the market's entry; with a client taken
\* the task comes to client.close().await with the guard still in scope
take(c) ==
    /\ c \in DOMAIN clients
    /\ clients[c].reader = "teardown"
    /\ locks.ws_clients = Free
    /\ LET m == clients[c].topic.market_type IN
        /\ ws_clients' = [ws_clients EXCEPT ![m] = NoClient]
        /\ locks' = IF ws_clients[m] # NoClient
                    THEN [locks EXCEPT !.ws_clients = ReaderGuard(c, ws_clients[m])]
                    ELSE locks
        /\ clients' = IF ws_clients[m] # NoClient
                      THEN [clients EXCEPT ![c].reader = "close",
                                           ![c].seen = <<ws_clients[m]>>]
                      ELSE [clients EXCEPT ![c].reader = "listening",
                                           ![c].topic = NoTopic, ![c].last = 0,
                                           ![c].seen = << >>]
    /\ UNCHANGED <<retry, subs, venue, cached, written, stopped, hub, cache, calls,
                   subscribe_called>>
    /\ UNCHANGED hubVars
    /\ UNCHANGED sessionVars

\* disconnect_if_no_subscribers: client.close().await writes the close frame
\* on the socket of the client that was taken; the guard of ws_clients drops
\* when the function returns
close_done(c) ==
    /\ c \in DOMAIN clients
    /\ clients[c].reader = "close"
    /\ clients' = [close({clients[c].seen[1]}) EXCEPT
                        ![c].reader = "listening", ![c].topic = NoTopic,
                        ![c].last = 0,
                        ![c].seen = << >>]
    /\ locks' = [locks EXCEPT !.ws_clients = Free]
    /\ UNCHANGED <<cached, written>>
    /\ UNCHANGED hubVars
    /\ ReaderFrame

\* stop(): self.ws_clients.lock().await returns the guard
stop_lock ==
    /\ ~stopped
    /\ locks.ws_clients = Free
    /\ locks' = [locks EXCEPT !.ws_clients = StopGuard(0)]
    /\ UNCHANGED <<retry, subs, venue, cached, written, stopped, hub, cache, ws_clients,
                   clients, calls, subscribe_called>>
    /\ UNCHANGED hubVars
    /\ UNCHANGED sessionVars

\* stop(): client_opt.take() on the next entry of the map that holds a
\* client, and the task comes to client.close().await
stop_take(m) ==
    /\ locks.ws_clients = StopGuard(0)
    /\ ws_clients[m] # NoClient
    /\ ws_clients' = [ws_clients EXCEPT ![m] = NoClient]
    /\ locks' = [locks EXCEPT !.ws_clients = StopGuard(ws_clients[m])]
    /\ UNCHANGED <<retry, subs, venue, cached, written, stopped, hub, cache, clients, calls,
                   subscribe_called>>
    /\ UNCHANGED hubVars
    /\ UNCHANGED sessionVars

\* stop(): client.close().await writes the close frame of the taken client
stop_close ==
    /\ locks.ws_clients.kind = "stop"
    /\ locks.ws_clients.taken # 0
    /\ clients' = close({locks.ws_clients.taken})
    /\ locks' = [locks EXCEPT !.ws_clients = StopGuard(0)]
    /\ UNCHANGED <<retry, subs, venue, cached, written, stopped, hub, cache, ws_clients, calls,
                   subscribe_called>>
    /\ UNCHANGED hubVars
    /\ UNCHANGED sessionVars

\* stop(): the loop over the map is done and the guard drops
stop_unlock ==
    /\ locks.ws_clients = StopGuard(0)
    /\ \A m \in SUPPORTED_MARKETS : ws_clients[m] = NoClient
    /\ locks' = [locks EXCEPT !.ws_clients = Free]
    /\ stopped' = TRUE
    /\ UNCHANGED <<retry, subs, venue, cached, written, hub, cache, ws_clients, clients, calls,
                   subscribe_called>>
    /\ UNCHANGED hubVars
    /\ UNCHANGED sessionVars

\* get_ws_client, set_ws_client, clear_ws_if_current and the end of
\* listen_for_messages lock ws_clients, act on the map and drop the guard
\* with no await in between: they run when the mutex is free
WsFree == locks.ws_clients = Free

\* the adapter at the grain of its mutexes: calls, reader tasks, stop() and
\* the global subscriptions of the sessions that connect
NextLocks ==
    \/ \E i \in 1..MaxCalls, m \in SUPPORTED_MARKETS :
            WsFree /\ subscribe_call(i, m) /\ UNCHANGED sessionVars
    \/ \E i \in 1..MaxCalls, m \in SUPPORTED_MARKETS :
            WsFree /\ unsubscribe_call(i, m) /\ UNCHANGED sessionVars
    \/ \E i \in 1..MaxCalls, ok \in BOOLEAN : connect(i, ok)
    \/ \E i \in 1..MaxCalls : WsFree /\ install(i)
    \/ \E i \in 1..MaxCalls : WsFree /\ reinstall(i)
    \/ \E i \in 1..MaxCalls : WsFree /\ resend_get(i)
    \/ \E i \in 1..MaxCalls, ok \in BOOLEAN : send_text(i, ok)
    \/ \E i \in 1..MaxCalls : WsFree /\ clear_ws_if_current(i)
    \/ \E c \in 1..MaxClients, m \in SUPPORTED_MARKETS :
            \E symbol \in SymbolsOf(m) : ticker_in(c, symbol)
    \/ \E c \in 1..MaxClients : lock_cache(c)
    \/ \E c \in 1..MaxClients : set_ticker_done(c)
    \/ \E c \in 1..MaxClients : lock_hub(c)
    \/ \E c \in 1..MaxClients : publish_done(c)
    \/ \E c \in 1..MaxClients : count(c)
    \/ \E c \in 1..MaxClients : take(c)
    \/ \E c \in 1..MaxClients : close_done(c)
    \/ \E c \in 1..MaxClients : read_close(c)
    \/ \E c \in 1..MaxClients : WsFree /\ clear_own(c)
    \/ \E c \in 1..MaxClients : read_error(c)
    \/ stop_lock
    \/ \E m \in SUPPORTED_MARKETS : stop_take(m)
    \/ stop_close
    \/ stop_unlock
    \/ Len(handles) < MaxSubscribers /\ subscribe_all /\ UNCHANGED sessionVars

SpecLocks == InitMarkets /\ [][NextLocks]_vars

\* C33: no adapter mutex is held by the task that writes a frame to a
\* socket: the guard of the connection map is dropped before a SUBSCRIBE or
\* UNSUBSCRIBE frame is sent and before a close frame is written, in
\* subscribe, unsubscribe, idle teardown and stop.
C33_NoLockAcrossWrite ==
    [][/\ (\E i \in DOMAIN calls, ok \in BOOLEAN : send_text(i, ok))
            => \A mu \in DOMAIN locks : locks[mu].kind # "call"
       /\ \A c \in DOMAIN clients : close_done(c) => HeldBy(c) = {}
       /\ stop_close => locks.ws_clients.kind # "stop"]_vars

\* C34: idle teardown closes a market's connection only if
\* global_subscriber_count() = 0 and subscriber_count(topic) = 0 still hold
\* when the connection is closed, so that a subscriber that registered after
\* the count check is not cut off by the teardown.
C34_TeardownCountsStillHold ==
    [][\A c \in DOMAIN clients :
        (disconnect(c) /\ TakenBy(clients[c].topic) # {})
        => /\ global_subscriber_count = 0
           /\ subscriber_count(clients[c].topic) = 0]_vars

\* ------------------------------------------------------------------------
\* The streams of a connection: what the venue has registered on a socket
\* after the SUBSCRIBE and UNSUBSCRIBE frames it received on it
\* ------------------------------------------------------------------------

\* the channel lists of a call for market m: its symbols' ticker channels
ChannelSets(m) == (SUBSET SymbolsOf(m)) \ {{}}

\* the streams the venue has on the socket of client c
StreamsOn(c) == {p[2] : p \in {q \in subs.streams : q[1] = c}}

\* the channels of market m that successful subscribe() calls named and no
\* unsubscribe() call has named since
WantedOf(m) == {p[2] : p \in {q \in subs.wanted : q[1] = m}}

\* subscribe(channels) for the channels of market m, up to the choice between
\* the market's client and a new connection
subscribe_channels(i, m, channels) ==
    /\ FreeSlot(i)
    /\ hub # None
    /\ LET c == ws_clients[m]
           reuse == c # NoClient /\ (venue = "binance" => ws_is_connected(c))
       IN calls' = [calls EXCEPT ![i] =
            [op |-> "subscribe", market_type |-> m,
             client |-> IF reuse THEN c ELSE NoClient,
             pc |-> IF reuse THEN "send" ELSE "connect"]]
    /\ subscribe_called' = TRUE
    /\ subs' = [subs EXCEPT !.asked[i] = channels]
    /\ UNCHANGED <<retry, locks, venue, cached, written, stopped, hub, cache, ws_clients,
                   clients>>
    /\ UNCHANGED hubVars
    /\ UNCHANGED sessionVars

\* unsubscribe(channels) for the channels of market m, up to get_ws_client
unsubscribe_channels(i, m, channels) ==
    /\ FreeSlot(i)
    /\ ws_clients[m] # NoClient
    /\ calls' = [calls EXCEPT ![i] =
            [op |-> "unsubscribe", market_type |-> m, client |-> ws_clients[m],
             pc |-> "unsub_send"]]
    /\ subs' = [subs EXCEPT !.asked[i] = channels]
    /\ UNCHANGED <<retry, locks, venue, cached, written, stopped, hub, cache, ws_clients,
                   clients, subscribe_called>>
    /\ UNCHANGED hubVars
    /\ UNCHANGED sessionVars

\* WsClient::send_text of the frame that format_subscription or
\* format_unsubscription made of the call's channels: the venue adds the
\* streams of a SUBSCRIBE frame it gets to those of the socket and removes
\* the streams of an UNSUBSCRIBE frame; a failed send drops the stream
send_channels(i, ok) ==
    /\ calls[i].pc \in {"send", "resend", "unsub_send"}
    /\ LET c == calls[i].client
           m == calls[i].market_type
           sent == ok /\ clients[c].stream # None
           frame == {<<c, ch>> : ch \in subs.asked[i]}
           named == {<<m, ch>> : ch \in subs.asked[i]}
       IN /\ clients' = IF ~sent THEN [clients EXCEPT ![c] = Broken(@, @.reader)]
                        ELSE IF calls[i].op = "subscribe"
                        THEN [clients EXCEPT ![c].subscribed = TRUE]
                        ELSE clients
          /\ calls' = AfterSend(i, sent)
          /\ subs' =
                [subs EXCEPT
                    !.streams = IF ~sent THEN @
                                ELSE IF calls[i].op = "subscribe" THEN @ \cup frame
                                ELSE @ \ frame,
                    !.wanted = IF calls[i].op = "unsubscribe" THEN @ \ named
                               ELSE IF sent THEN @ \cup named
                               ELSE @]
    /\ UNCHANGED <<retry, locks, venue, cached, written, stopped, hub, cache, ws_clients,
                   subscribe_called>>
    /\ UNCHANGED hubVars
    /\ UNCHANGED sessionVars

\* the calls of the sessions with their channels, and connections that the
\* venue closes
NextStreams ==
    \/ \E i \in 1..MaxCalls, m \in SUPPORTED_MARKETS :
            \E channels \in ChannelSets(m) : subscribe_channels(i, m, channels)
    \/ \E i \in 1..MaxCalls, m \in SUPPORTED_MARKETS :
            \E channels \in ChannelSets(m) : unsubscribe_channels(i, m, channels)
    \/ \E i \in 1..MaxCalls, ok \in BOOLEAN : connect(i, ok)
    \/ \E i \in 1..MaxCalls : install(i)
    \/ \E i \in 1..MaxCalls : reinstall(i)
    \/ \E i \in 1..MaxCalls : resend_get(i)
    \/ \E i \in 1..MaxCalls, ok \in BOOLEAN : send_channels(i, ok)
    \/ \E i \in 1..MaxCalls : clear_ws_if_current(i)
    \/ \E c \in 1..MaxClients : read_close(c)
    \/ \E c \in 1..MaxClients : clear_own(c)

SpecStreams == InitMarkets /\ [][NextStreams]_vars

\* C35: while a market has a live connection and no call for the market is
\* in progress, the streams subscribed on that connection are the channels
\* of the successful subscribe() calls for the market minus those of its
\* unsubscribe() calls, also after the connection was lost and a later
\* subscribe() opened a new one.
C35_StreamsAreSubscriptions ==
    \A m \in SUPPORTED_MARKETS :
        (/\ ws_clients[m] # NoClient
         /\ clients[ws_clients[m]].stream # None
         /\ \A i \in DOMAIN calls : calls[i].market_type # m)
        => StreamsOn(ws_clients[m]) = WantedOf(m)

\* C36: while the hub has a global subscriber, that is while a client session
\* is connected and registered, idle teardown closes no upstream connection,
\* whatever the per-topic subscriber counts are.
C36_NoTeardownWhileSessionConnected ==
    [][\A c \in DOMAIN clients :
        (disconnect(c) /\ global_subscriber_count > 0)
        => \A d \in DOMAIN clients : clients'[d].stream = clients[d].stream]_vars

\* C37: a reader task that ends clears the market's handle only if the handle
\* still holds the reader's own connection, and no step of a reader task
\* clears or closes a newer connection that a later subscribe() installed for
\* the same market.
C37_ReaderSparesNewerConnection ==
    [][\A c \in DOMAIN clients :
        (clear_own(c) \/ disconnect(c))
        => LET m == clients[c].market_type
               newer == ws_clients[m]
           IN /\ (clear_own(c) /\ newer # c) => ws_clients'[m] = newer
              /\ newer > c => /\ ws_clients'[m] = newer
                              /\ clients'[newer].stream = clients[newer].stream]_vars

\* ------------------------------------------------------------------------
\* The send half of a session at the grain of its mutex: the main task and
\* the forwarder task lock `sender` for each frame they write.
\* ------------------------------------------------------------------------

\* handle_socket: sender.lock().await for the welcome frame returns the guard
welcome_lock(s) ==
    /\ sessions[s].pc = "welcome"
    /\ sessions[s].guard = None
    /\ sessions' = [sessions EXCEPT ![s].pc = "welcome_send", ![s].guard = "main"]
    /\ UNCHANGED <<hubVars, adapterVars>>

\* handle_socket: the welcome frame is written under the guard, which the
\* end of the `if let` (or the return of a failed send) drops
welcome_sent(s) ==
    /\ sessions[s].pc = "welcome_send"
    /\ sessions' = IF sessions[s].socket = "open"
                   THEN [sessions EXCEPT ![s].pc = "register",
                                         ![s].first = FirstFrame(s, "info"),
                                         ![s].guard = None]
                   ELSE [sessions EXCEPT ![s].pc = "ended", ![s].guard = None]
    /\ UNCHANGED <<hubVars, adapterVars>>

\* the main task, its adapter calls done, comes to sender.lock().await for
\* the frame it answers with, and gets the guard
reply_lock(s) ==
    /\ sessions[s].pc = "replying"
    /\ sessions[s].todo = << >>
    /\ sessions[s].guard = None
    /\ sessions' = [sessions EXCEPT ![s].pc = "reply_send", ![s].guard = "main"]
    /\ UNCHANGED <<hubVars, adapterVars>>

\* the answer is written under the guard (a failed send is logged), the
\* guard drops and the loop goes back to receiver.next()
reply_sent(s) ==
    /\ sessions[s].pc = "reply_send"
    /\ sessions' = [sessions EXCEPT
            ![s].pc = "serving",
            ![s].guard = None,
            ![s].replies = IF sessions[s].socket = "open"
                           THEN @ \o Reply(sessions[s].request) ELSE @,
            ![s].first = IF sessions[s].socket = "open"
                            /\ Reply(sessions[s].request) # << >>
                         THEN FirstFrame(s, "reply") ELSE @]
    /\ UNCHANGED <<hubVars, adapterVars>>

\* the forwarder task: stream_receiver.recv() returns; with an event the
\* task comes to ws_sender.lock().await, and any recv error breaks the loop
forward_recv(s) ==
    /\ sessions[s].forwarder = "running"
    /\ recv(sessions[s].handle)
    /\ sessions' =
        IF "value" \in DOMAIN NextItem(s)
        THEN [sessions EXCEPT ![s].forwarder = "locking",
                              ![s].item = <<NextItem(s).value[2]>>]
        ELSE [sessions EXCEPT ![s].forwarder = "exiting"]

\* the forwarder task: ws_sender.lock().await returns the guard
forward_lock(s) ==
    /\ sessions[s].forwarder = "locking"
    /\ sessions[s].guard = None
    /\ sessions' = [sessions EXCEPT ![s].forwarder = "sending",
                                    ![s].guard = "forwarder"]
    /\ UNCHANGED <<hubVars, adapterVars>>

\* the forwarder task: the event is written under the guard, which drops at
\* the end of the `if let`; a failed write breaks the loop
forward_sent(s) ==
    /\ sessions[s].forwarder = "sending"
    /\ sessions' =
        IF sessions[s].socket = "open"
        THEN [sessions EXCEPT ![s].events = Append(@, sessions[s].item[1]),
                              ![s].first = FirstFrame(s, "event"),
                              ![s].forwarder = "running",
                              ![s].guard = None, ![s].item = << >>]
        ELSE [sessions EXCEPT ![s].forwarder = "exiting",
                              ![s].guard = None, ![s].item = << >>]
    /\ UNCHANGED <<hubVars, adapterVars>>

\* a mutex of the program: one of the adapter's three, or the send half of
\* session `of`
Mutex(name, of) == [mutex |-> name, of |-> of]

\* the tasks that take mutexes
Tasks ==
    {[task |-> "reader", id |-> c] : c \in DOMAIN clients}
        \cup {[task |-> "stop", id |-> 0]}
        \cup {[task |-> k, id |-> s] : k \in {"main", "forwarder"}, s \in DOMAIN sessions}

\* the mutexes a task holds
Holds(t) ==
    IF t.task = "reader" THEN {Mutex(mu, 0) : mu \in HeldBy(t.id)}
    ELSE IF t.task = "stop"
    THEN {Mutex(mu, 0) : mu \in {x \in DOMAIN locks : locks[x].kind = "stop"}}
    ELSE IF sessions[t.id].guard = t.task THEN {Mutex("sender", t.id)} ELSE {}

\* the mutex a task is waiting for at its .lock().await, if it is at one
Awaits(t) ==
    IF t.task = "reader"
    THEN LET at == clients[t.id].reader IN
         IF at = "cache_lock" THEN {Mutex("cache", 0)}
         ELSE IF at \in {"hub_lock", "count_lock"} THEN {Mutex("hub", 0)}
         ELSE IF at = "teardown" THEN {Mutex("ws_clients", 0)}
         ELSE {}
    ELSE IF t.task = "stop"
    THEN IF ~stopped /\ locks.ws_clients.kind # "stop"
         THEN {Mutex("ws_clients", 0)} ELSE {}
    ELSE IF t.task = "main"
    THEN IF sessions[t.id].pc \in {"welcome", "replying"}
         THEN {Mutex("sender", t.id)}
         ELSE IF sessions[t.id].pc = "subscribing"
         THEN {Mutex("ws_clients", 0)} ELSE {}
    ELSE IF sessions[t.id].forwarder = "locking"
         THEN {Mutex("sender", t.id)} ELSE {}

\* the task that holds a mutex, if one does
Holder(mu) == {t \in Tasks : mu \in Holds(t)}

\* the adapter and the sessions of its clients at the grain of their
\* mutexes: the main and forwarder task of each session, the adapter calls
\* the main task awaits, the reader tasks and stop()
NextGuards ==
    \/ \E s \in 1..MaxSessions : accept(s)
    \/ \E s \in 1..MaxSessions : client_close(s)
    \/ \E s \in 1..MaxSessions : welcome_lock(s)
    \/ \E s \in 1..MaxSessions : welcome_sent(s)
    \/ \E s \in 1..MaxSessions : register(s)
    \/ \E s \in 1..MaxSessions, i \in 1..MaxCalls, req \in SessionRequests :
            WsFree /\ request(s, i, req)
    \/ \E s \in 1..MaxSessions, i \in 1..MaxCalls :
            (WsFree \/ Skip(sessions[s].request.op, sessions[s].todo) = << >>)
                /\ returned(s, i)
    \/ \E s \in 1..MaxSessions : reply_lock(s)
    \/ \E s \in 1..MaxSessions : reply_sent(s)
    \/ \E s \in 1..MaxSessions : leave(s)
    \/ \E s \in 1..MaxSessions : forward_recv(s)
    \/ \E s \in 1..MaxSessions : forward_lock(s)
    \/ \E s \in 1..MaxSessions : forward_sent(s)
    \/ \E s \in 1..MaxSessions : forwarder_drop(s)
    \/ \E i \in 1..MaxCalls, ok \in BOOLEAN : connect(i, ok)
    \/ \E i \in 1..MaxCalls : WsFree /\ install(i)
    \/ \E i \in 1..MaxCalls : WsFree /\ reinstall(i)
    \/ \E i \in 1..MaxCalls : WsFree /\ resend_get(i)
    \/ \E i \in 1..MaxCalls, ok \in BOOLEAN : send_text(i, ok)
    \/ \E i \in 1..MaxCalls : WsFree /\ clear_ws_if_current(i)
    \/ \E c \in 1..MaxClients, t \in SessionTopics :
            ticker_in(c, t.symbol)
    \/ \E c \in 1..MaxClients : lock_cache(c)
    \/ \E c \in 1..MaxClients : set_ticker_done(c)
    \/ \E c \in 1..MaxClients : lock_hub(c)
    \/ \E c \in 1..MaxClients : publish_done(c)
    \/ \E c \in 1..MaxClients : count(c)
    \/ \E c \in 1..MaxClients : take(c)
    \/ \E c \in 1..MaxClients : close_done(c)
    \/ stop_lock
    \/ \E m \in SUPPORTED_MARKETS : stop_take(m)
    \/ stop_close
    \/ stop_unlock

SpecGuards == InitSession /\ [][NextGuards]_vars

\* C38: a task that waits for a mutex holds none (the adapter's hub, cache
\* and connection-map mutexes, the send half of a session), so a mutex that
\* is awaited is held, if at all, by a task that waits for no mutex: reader
\* tasks, subscribe/unsubscribe/stop calls, forwarders and the sessions'
\* main tasks cannot deadlock on these locks.
C38_NoNestedLocks ==
    /\ \A t \in Tasks : Awaits(t) # {} => Holds(t) = {}
    /\ \A t \in Tasks : \A mu \in Awaits(t) : \A h \in Holder(mu) : Awaits(h) = {}
    /\ \A mu \in DOMAIN locks : locks[mu].kind # "call"

\* a session's main task waits for the send half while the forwarder holds
\* it, and a reader task waits for a mutex of the adapter
C38_Witness ==
    \E s \in DOMAIN sessions :
        /\ sessions[s].pc = "replying"
        /\ sessions[s].guard = "forwarder"
        /\ \E c \in DOMAIN clients : Awaits([task |-> "reader", id |-> c]) # {}

\* ------------------------------------------------------------------------
\* The tickers of the reader tasks, with the prices the venue quotes, in the
\* cache and at the subscribers of the hub.
\* ------------------------------------------------------------------------

\* the reader tasks handling ticker frames at the grain of the mutexes, the
\* calls that connect them and the global subscribers that receive the
\* events
NextSnapshots ==
    \/ \E i \in 1..MaxCalls, m \in SUPPORTED_MARKETS :
            WsFree /\ subscribe_call(i, m) /\ UNCHANGED sessionVars
    \/ \E i \in 1..MaxCalls, ok \in BOOLEAN : connect(i, ok)
    \/ \E i \in 1..MaxCalls : WsFree /\ install(i)
    \/ \E i \in 1..MaxCalls : WsFree /\ reinstall(i)
    \/ \E i \in 1..MaxCalls : WsFree /\ resend_get(i)
    \/ \E i \in 1..MaxCalls, ok \in BOOLEAN : send_text(i, ok)
    \/ \E i \in 1..MaxCalls : WsFree /\ clear_ws_if_current(i)
    \/ \E c \in 1..MaxClients, t \in SessionTopics, last \in 1..MaxPrice :
            Len(written) < MaxTickers /\ ticker_priced(c, t.symbol, last)
    \/ \E c \in 1..MaxClients : lock_cache(c)
    \/ \E c \in 1..MaxClients : set_ticker_done(c)
    \/ \E c \in 1..MaxClients : lock_hub(c)
    \/ \E c \in 1..MaxClients : publish_done(c)
    \/ \E c \in 1..MaxClients : count(c)
    \/ \E c \in 1..MaxClients : take(c)
    \/ \E c \in 1..MaxClients : close_done(c)
    \/ Len(handles) < MaxSubscribers /\ subscribe_all /\ UNCHANGED sessionVars
    \/ \E h \in 1..MaxHandles : recv(h) /\ UNCHANGED sessionVars

SpecSnapshots == InitMarkets /\ [][NextSnapshots]_vars

\* the cache holds, for the key of ticker e, e itself or a ticker that was
\* written after e
CachedOrNewer(e) ==
    LET cur == get_ticker(e.exchange, e.market_type, e.symbol) IN
        /\ cur # NoTicker
        /\ \/ cur = e
           \/ \E i, j \in DOMAIN written :
                i < j /\ written[i] = e /\ written[j] = cur

\* the tickers a subscriber of the hub has received
ReceivedBy(h) ==
    {received[h][k].value[2] :
        k \in {x \in DOMAIN received[h] : "value" \in DOMAIN received[h][x]}}

MarketOrders ==
    {o \in UNION {[1..n -> SUPPORTED_MARKETS] :
                        n \in 1..Cardinality(SUPPORTED_MARKETS)} :
        \A x, y \in DOMAIN o : x # y => o[x] # o[y]}

\* the markets of a sequence
Range(o) == {o[x] : x \in DOMAIN o}

\* ExchangeAdapter::unsubscribe -> unsubscribe_internal: the channels are
\* grouped by market and the loop over by_market begins; history: the
\* markets the call names and the client each market had when it began
unsubscribe_markets(i, order) ==
    /\ FreeSlot(i)
    /\ calls' = [calls EXCEPT ![i] =
            [op |-> "unsubscribe", market_type |-> None, client |-> NoClient,
             pc |-> "unsub_next"]]
    /\ subs' = [subs EXCEPT !.by_market[i] = order,
                            !.named[i] = order,
                            !.had[i] = ws_clients,
                            !.frames[i] = << >>]
    /\ UNCHANGED <<retry, locks, venue, cached, written, stopped, hub, cache, ws_clients,
                   clients, subscribe_called>>
    /\ UNCHANGED hubVars
    /\ UNCHANGED sessionVars

\* unsubscribe_internal: the loop takes the next market and calls
\* get_ws_client. With a client the frame is sent next. Without one
\* BinanceAdapter returns Err("WebSocket client not connected ..") and
\* BybitAdapter warns and goes on with the loop, which returns Ok at its end
unsubscribe_next(i) ==
    /\ calls[i].pc = "unsub_next"
    /\ LET m == Head(subs.by_market[i])
           rest == Tail(subs.by_market[i])
       IN IF ws_clients[m] # NoClient
          THEN /\ calls' = [calls EXCEPT ![i].market_type = m,
                                         ![i].client = ws_clients[m],
                                         ![i].pc = "unsub_send"]
               /\ subs' = [subs EXCEPT !.by_market[i] = rest]
          ELSE IF venue = "binance"
          THEN /\ calls' = Return(i)
               /\ subs' = [subs EXCEPT !.by_market[i] = << >>]
          ELSE /\ calls' = IF rest = << >> THEN Return(i) ELSE calls
               /\ subs' = [subs EXCEPT !.by_market[i] = rest]
    /\ UNCHANGED <<retry, locks, venue, cached, written, stopped, hub, cache, ws_clients,
                   clients, subscribe_called>>
    /\ UNCHANGED hubVars
    /\ UNCHANGED sessionVars

\* unsubscribe_internal: ws_client.send_text(&unsubscription).await. A frame
\* that was sent is followed by the next market of the loop; a failed send
\* drops the stream, and BinanceAdapter returns the error with `?` while
\* BybitAdapter goes to clear_ws_if_current
unsubscribe_send(i, ok) ==
    /\ calls[i].pc = "unsub_send"
    /\ LET c == calls[i].client
           m == calls[i].market_type
           sent == ok /\ clients[c].stream # None
           rest == subs.by_market[i]
       IN /\ clients' = IF sent THEN clients
                        ELSE [clients EXCEPT ![c] = Broken(@, @.reader)]
          /\ calls' = IF ~sent /\ venue = "bybit" THEN Goto(i, "unsub_cleared")
                      ELSE IF ~sent \/ rest = << >> THEN Return(i)
                      ELSE [calls EXCEPT ![i].market_type = None,
                                         ![i].client = NoClient,
                                         ![i].pc = "unsub_next"]
          /\ subs' = [subs EXCEPT
                        !.frames[i] = IF sent THEN Append(@, m) ELSE @,
                        !.by_market[i] = IF ~sent /\ venue = "binance"
                                         THEN << >> ELSE @]
    /\ UNCHANGED <<retry, locks, venue, cached, written, stopped, hub, cache, ws_clients,
                   subscribe_called>>
    /\ UNCHANGED hubVars
    /\ UNCHANGED sessionVars

\* BybitAdapter::unsubscribe_internal: clear_ws_if_current after the failed
\* send, and the loop goes on
unsubscribe_clear(i) ==
    /\ calls[i].pc = "unsub_cleared"
    /\ ws_clients' = [ws_clients EXCEPT ![calls[i].market_type] =
                            IF @ = calls[i].client THEN NoClient ELSE @]
    /\ calls' = IF subs.by_market[i] = << >> THEN Return(i)
                ELSE [calls EXCEPT ![i].market_type = None,
                                   ![i].client = NoClient,
                                   ![i].pc = "unsub_next"]
    /\ UNCHANGED <<retry, locks, subs, venue, cached, written, stopped, hub, cache,
                   clients, subscribe_called>>
    /\ UNCHANGED hubVars
    /\ UNCHANGED sessionVars

\* the subscribe() and unsubscribe() calls of the sessions, each unsubscribe
\* for the markets its channels name, and connections that the venue closes
NextUnsubscribe ==
    \/ \E i \in 1..MaxCalls, m \in SUPPORTED_MARKETS :
            subscribe_call(i, m) /\ UNCHANGED sessionVars
    \/ \E i \in 1..MaxCalls, order \in MarketOrders : unsubscribe_markets(i, order)
    \/ \E i \in 1..MaxCalls : unsubscribe_next(i)
    \/ \E i \in 1..MaxCalls, ok \in BOOLEAN : unsubscribe_send(i, ok)
    \/ \E i \in 1..MaxCalls : unsubscribe_clear(i)
    \/ \E i \in 1..MaxCalls, ok \in BOOLEAN : connect(i, ok)
    \/ \E i \in 1..MaxCalls : install(i)
    \/ \E i \in 1..MaxCalls : reinstall(i)
    \/ \E i \in 1..MaxCalls : resend_get(i)
    \/ \E i \in 1..MaxCalls, ok \in BOOLEAN :
            calls[i].op = "subscribe" /\ send_text(i, ok)
    \/ \E i \in 1..MaxCalls : calls[i].op = "subscribe" /\ clear_ws_if_current(i)
    \/ \E c \in 1..MaxClients : read_close(c)
    \/ \E c \in 1..MaxClients : clear_own(c)

SpecUnsubscribe == InitMarkets /\ [][NextUnsubscribe]_vars

\* a step of an unsubscribe() call
UnsubscribeStep ==
    \E i \in DOMAIN calls :
        \/ \E order \in MarketOrders : unsubscribe_markets(i, order)
        \/ unsubscribe_next(i)
        \/ \E ok \in BOOLEAN : unsubscribe_send(i, ok)
        \/ unsubscribe_clear(i)

\* the UNSUBSCRIBE frames call i has sent on the connection of market m
FramesTo(i, m) == Cardinality({x \in DOMAIN subs.frames[i] : subs.frames[i][x] = m})

\* C40: unsubscribe(channels) never opens an upstream connection; once it
\* has returned, a market it named that had no connection got no frame and
\* is still Idle if no subscribe() connected it, and a market it named
\* whose connection is still the open one it had got exactly one
\* UNSUBSCRIBE frame.
C40_UnsubscribeFrames ==
    /\ [][UnsubscribeStep =>
            /\ Len(clients') = Len(clients)
            /\ \A c \in DOMAIN clients : clients[c].stream = None
                                            => clients'[c].stream = None
            /\ \A m \in SUPPORTED_MARKETS :
                    ws_clients[m] = NoClient => ws_clients'[m] = NoClient]_vars
    /\ [](\A i \in DOMAIN calls :
            calls[i] = NoCall =>
                \A m \in SUPPORTED_MARKETS :
                    /\ subs.had[i][m] = NoClient => FramesTo(i, m) = 0
                    /\ (/\ m \in Range(subs.named[i])
                        /\ subs.had[i][m] # NoClient
                        /\ ws_clients[m] = subs.had[i][m]
                        /\ clients[subs.had[i][m]].stream # None)
                       => FramesTo(i, m) = 1)

Next ==
    \/ \E t \in HubTopics : publish(t)
    \/ \E t \in HubTopics : subscribe(t)
    \/ subscribe_all /\ UNCHANGED sessionVars
    \/ \E h \in 1..MaxHandles : drop(h) /\ UNCHANGED sessionVars
    \/ \E h \in 1..MaxHandles : recv(h) /\ UNCHANGED sessionVars
    \/ \E h \in 1..MaxHandles : stall(h)

Spec == Init /\ [][Next]_vars

====
